---- MODULE Spec2Model ----
(***************************************************************************)
(* Model of the concurrency core of oxitty: the atomic flag register       *)
(* (src/src/state.rs), the bounded event channel and the input polling     *)
(* loop (src/src/event.rs), and the run loop with its shutdown sequence    *)
(* (src/src/app.rs).                                                       *)
(*                                                                         *)
(* The 64-bit register is represented by the set of bit positions that are *)
(* 1, so `a | b` is union, `a & !b` is set difference and `a & b` is       *)
(* intersection.  Every atomic access uses SeqCst on one AtomicU64, so the *)
(* interleaving of the atomic steps below is the memory model.             *)
(***************************************************************************)
EXTENDS Integers, Sequences, FiniteSets, TLC

(***************************************************************************)
(* Bounds of the model.                                                    *)
(***************************************************************************)
NumThreads == 2          \* threads sharing one StateFlags
NFlags     == 2          \* flag indexes the threads use: 0 .. NFlags-1
MaxOps     == 3          \* calls issued on the register in one behaviour
MaxPairs   == 2          \* longest list handed to update_multiple
NumProducers == 2        \* callers of try_send (EventLoop, external)
NumConsumers == 2        \* callers of try_recv (run loop, external)
MaxSends   == 3          \* try_send calls in one behaviour
MaxRecvs   == 3          \* try_recv calls in one behaviour
Cap        == 2          \* channel capacity in the interleaving runs
MaxTasks   == 1          \* futures handed to App::spawn before run
MaxIters   == 2          \* iterations of the run loop that find it running
MaxEnv     == 2          \* input events and calls from outside the loops
MaxPolls   == 2          \* times the model follows one spawned future

(***************************************************************************)
(* Program constants.                                                      *)
(***************************************************************************)
RUNNING    == 0
PROCESSING == 1
MAX_FLAGS  == 64
MAX_EVENTS == 1024

Threads == 1..NumThreads
Flags   == 0..(NFlags - 1)

VARIABLES
    scenario,     \* which calls the threads issue (fixed at Init)
    initial,      \* argument of StateFlags::new
    flags,        \* StateFlags.flags, the AtomicU64
    pc,           \* per thread: position inside the current call
    op,           \* per thread: the call in progress
    cur,          \* per thread: `prev` of the fetch_update retry loop
    res,          \* per thread: value the call returns
    snap,         \* per thread: the FlagsSnapshot it holds
    window,       \* per thread: register values since its read was called
    lastWrite,    \* per flag: value of the write that took effect last
    opsLeft,      \* calls still to be issued
    quitReturned  \* some quit() call has returned

flagVars == <<scenario, initial, flags, pc, op, cur, res, snap, window,
              lastWrite, opsLeft, quitReturned>>

VARIABLES
    capacity,     \* capacity the channel was created with
    queue,        \* events in the channel, oldest first
    closed,       \* the channel is closed
    sendsLeft,    \* try_send calls still to be made
    recvsLeft,    \* try_recv calls still to be made
    attempts,     \* per producer: try_send calls made
    sent,         \* per producer: events accepted, in send order
    sendRes,      \* per producer: result of its last try_send
    recvRes,      \* per consumer: result of its last try_recv
    received,     \* events taken out of the channel, in receive order
    rt            \* progress of a send / receive / receive sequence

chanVars == <<capacity, queue, closed, sendsLeft, recvsLeft, attempts, sent,
              sendRes, recvRes, received, rt>>

VARIABLES
    running,        \* EventHandler.running, the AtomicBool
    evPc,           \* position of EventHandler::run
    evResult,       \* what EventHandler::run returned
    pendingEv,      \* EventHandler::run: the event read and not yet sent
    stopAt,         \* position of EventHandler::run at the first stop()
    fwdAfterStop,   \* try_send calls of the loop since stop()
    pollsAfterStop, \* polls of the loop since stop()
    lastRaw         \* the raw event read in the iteration in progress

loopVars == <<running, evPc, evResult, pendingEv, stopAt,
              fwdAfterStop, pollsAfterStop, lastRaw>>

VARIABLES
    appPc,          \* position of App::run
    tasks,          \* App.tasks
    taken,          \* cleanup_tasks: the tasks taken and not yet joined
    event,          \* App::run: the event drained in this iteration
    runResult,      \* what App::run returned
    iter,           \* iterations of the run loop started
    iterRenders,    \* render callback invocations in this iteration
    iterDrains,     \* events drained in this iteration
    renderSnap,     \* Tui::render: the snapshot handed to the callback
    sinceRecv,      \* snapshots the state had since this iteration's drain
    renders,        \* render callback invocations so far
    renderFailed,   \* a render pass has failed
    joinLog,        \* cleanup_tasks: tasks joined, with the outcome
    spawned         \* tasks ever pushed on App.tasks

runVars == <<appPc, tasks, taken, event, runResult, iter, iterRenders,
             iterDrains, renderSnap, sinceRecv, renders, renderFailed,
             joinLog, spawned>>

VARIABLES
    taskState,      \* per future handed to spawn: what it does
    envLeft         \* input events and calls from outside still to come

appVars == <<loopVars, runVars, taskState, envLeft>>

VARIABLES
    debugAssertions, \* the build has debug assertions and overflow checks
    sReg,            \* a register used by one caller at a time
    sBefore,         \* that register before the last call
    sCall,           \* the last call on it
    sOut             \* what the last call returned, or that it panicked

seqVars == <<debugAssertions, sReg, sBefore, sCall, sOut>>

VARIABLES
    tty,            \* standard output is a terminal
    term,           \* the environment variable TERM
    tuiPc,          \* the life of the Tui: none, live, failed, dropped
    newResult,      \* what App::new returned
    rawMode,        \* the terminal is in raw mode
    altScreen,      \* the terminal shows the alternate screen
    mouseCapture,   \* the terminal reports mouse input
    handler,        \* the EventHandler of the App exists
    restores,       \* calls of Tui::restore_terminal
    restoreResult   \* what the last restore_terminal returned

tuiVars == <<tty, term, tuiPc, newResult, rawMode, altScreen, mouseCapture,
             handler, restores, restoreResult>>

VARIABLES
    executor,       \* the executor runs its tasks on threads, or on one
    cpu,            \* single-threaded executor: the task it is running
    userPolls       \* per future handed to spawn: times it was run

schedVars == <<executor, cpu, userPolls>>

auxVars == <<seqVars, tuiVars, schedVars>>

vars == <<flagVars, chanVars, appVars, auxVars>>

----------------------------------------------------------------------------
(***************************************************************************)
(* The executor.  On threads every task steps whenever it can.  A          *)
(* single-threaded executor runs one task at a time and takes the thread   *)
(* back only when that task awaits something pending or returns: at        *)
(* yield_now().await, at the task.or(timer).await of cleanup_tasks, and    *)
(* at the end of the task.                                                 *)
(***************************************************************************)
UserTasks == 1..MaxTasks

\* tasks on threads, no task of a single-threaded executor running
SchedIdle ==
    /\ executor = "threads"
    /\ cpu = "none"
    /\ userPolls = [id \in UserTasks |-> 0]

\* a step of App::run: it needs the thread, and gives it up at its
\* yield_now().await, when it awaits a task in cleanup_tasks, and when
\* it returns
RunSched ==
    /\ executor = "single" => cpu = "run"
    /\ cpu' = IF /\ executor = "single"
                 /\ \/ appPc = "yield"
                    \/ appPc' = "returned"
                    \/ appPc' = "join" /\ taken' # <<>>
              THEN "none" ELSE cpu
    /\ UNCHANGED <<executor, userPolls, seqVars, tuiVars>>

\* the call of App::run: block_on runs it on the thread
RunStartSched ==
    /\ executor = "single" => cpu = "none"
    /\ cpu' = IF executor = "single" THEN "run" ELSE cpu
    /\ UNCHANGED <<executor, userPolls, seqVars, tuiVars>>

\* an EventLoop that goes on to its next iteration without a yield
LoopSchedNoYield ==
    /\ executor = "single" => cpu = "loop"
    /\ cpu' = IF executor = "single" /\ evPc' = "done" THEN "none" ELSE cpu
    /\ UNCHANGED <<executor, userPolls, seqVars, tuiVars>>

\* a step of EventHandler::run: it needs the thread, and gives it up at
\* its yield_now().await and when it returns
LoopSched ==
    /\ executor = "single" => cpu = "loop"
    /\ cpu' = IF /\ executor = "single"
                 /\ evPc = "yield" \/ evPc' = "done"
              THEN "none" ELSE cpu
    /\ UNCHANGED <<executor, userPolls, seqVars, tuiVars>>

----------------------------------------------------------------------------
(***************************************************************************)
(* StateFlags: the pure parts of each method.                              *)
(***************************************************************************)

\* 1u64 << flag
Bit(flag) == {flag % MAX_FLAGS}

\* set with a 1-based shift: 1u64 << (flag - 1)
SetValueShifted(current, flag, value) ==
    LET mask == Bit(flag - 1)
    IN  IF value THEN current \cup mask ELSE current \ mask

\* set that stores the mask in place of or-ing it in
SetValueStore(current, flag, value) ==
    LET mask == Bit(flag)
    IN  IF value THEN mask ELSE {}

\* closure handed to fetch_update by set
SetValue(current, flag, value) ==
    LET mask == Bit(flag)
    IN  IF value THEN current \cup mask ELSE current \ mask

\* (load & mask) != 0
get(reg, flag) == (reg \cap Bit(flag)) # {}

\* the loop with `mask = bit` in place of `mask |= bit`
RECURSIVE AccumulateUpdatesLastMask(_, _, _)
AccumulateUpdatesLastMask(updates, mask, new_values) ==
    IF updates = <<>> THEN [mask |-> mask, new_values |-> new_values]
    ELSE LET flag  == Head(updates)[1]
             value == Head(updates)[2]
             bit   == Bit(flag)
         IN  AccumulateUpdatesLastMask(Tail(updates), bit,
                               IF value THEN new_values \cup bit
                                        ELSE new_values)

\* a loop in which a pair carrying false clears the bit in new_values
RECURSIVE AccumulateUpdatesLastWins(_, _, _)
AccumulateUpdatesLastWins(updates, mask, new_values) ==
    IF updates = <<>> THEN [mask |-> mask, new_values |-> new_values]
    ELSE LET flag  == Head(updates)[1]
             value == Head(updates)[2]
             bit   == Bit(flag)
         IN  AccumulateUpdatesLastWins(Tail(updates), mask \cup bit,
                               IF value THEN new_values \cup bit
                                        ELSE new_values \ bit)

\* the for loop of update_multiple: accumulates mask and new_values
RECURSIVE AccumulateUpdates(_, _, _)
AccumulateUpdates(updates, mask, new_values) ==
    IF updates = <<>> THEN [mask |-> mask, new_values |-> new_values]
    ELSE LET flag  == Head(updates)[1]
             value == Head(updates)[2]
             bit   == Bit(flag)
         IN  AccumulateUpdates(Tail(updates), mask \cup bit,
                               IF value THEN new_values \cup bit
                                        ELSE new_values)

\* an update that replaces the register by the new values
UpdateValueReplace(current, updates) ==
    LET acc == AccumulateUpdates(updates, {}, {})
    IN  acc.new_values \cap acc.mask

\* closure handed to fetch_update by update_multiple
UpdateValue(current, updates) ==
    LET acc == AccumulateUpdates(updates, {}, {})
    IN  (current \ acc.mask) \cup (acc.new_values \cap acc.mask)

\* FlagsSnapshot::get
FlagsSnapshot_get(s, flag) == (s \cap Bit(flag)) # {}

\* quit written as a toggle of RUNNING (fetch_xor)
QuitValueToggle(current) ==
    IF RUNNING \in current THEN current \ Bit(RUNNING)
                           ELSE current \cup Bit(RUNNING)
\* AtomicState::quit of the flag-based state: flags.set(RUNNING, false)
QuitValue(current) == SetValue(current, RUNNING, FALSE)

\* AtomicState::is_running of the flag-based state
is_running(reg) == get(reg, RUNNING)

\* AtomicState::snapshot of the flag-based state, and should_quit on it
AppSnapshot(reg) ==
    [running    |-> FlagsSnapshot_get(reg, RUNNING),
     processing |-> FlagsSnapshot_get(reg, PROCESSING)]
should_quit(s) == ~s.running

----------------------------------------------------------------------------
(***************************************************************************)
(* Calls.                                                                  *)
(***************************************************************************)
NoOp == [kind |-> "none", flag |-> 0, value |-> FALSE, updates |-> <<>>]
SetOp(f, v)    == [kind |-> "set", flag |-> f, value |-> v, updates |-> <<>>]
GetOp(f)       == [kind |-> "get", flag |-> f, value |-> FALSE, updates |-> <<>>]
SnapshotOp     == [kind |-> "snapshot", flag |-> 0, value |-> FALSE, updates |-> <<>>]
SnapGetOp(f)   == [kind |-> "snap_get", flag |-> f, value |-> FALSE, updates |-> <<>>]
QuitOp         == [kind |-> "quit", flag |-> RUNNING, value |-> FALSE, updates |-> <<>>]
UpdateOp(u)    == [kind |-> "update_multiple", flag |-> 0, value |-> FALSE, updates |-> u]

Pairs == Flags \X BOOLEAN

\* lists of (flag, value) pairs over pairwise distinct flags
UpdateLists ==
    { u \in UNION { [1..n -> Pairs] : n \in 0..MaxPairs } :
        \A i, j \in DOMAIN u : i # j => u[i][1] # u[j][1] }

BatchAB == <<<<RUNNING, TRUE>>, <<PROCESSING, TRUE>>>>

WriteKinds == {"set", "update_multiple", "quit"}
LoadKinds  == {"get", "snapshot"}

\* the calls thread t may issue in each scenario
Menu(t) ==
    CASE scenario = "any" ->
            { SetOp(f, v) : f \in Flags, v \in BOOLEAN }
            \cup { GetOp(f) : f \in Flags }
            \cup { SnapGetOp(f) : f \in Flags }
            \cup { UpdateOp(u) : u \in UpdateLists }
            \cup { SnapshotOp, QuitOp }
      [] scenario = "batch" ->
            IF t = 1 THEN { UpdateOp(BatchAB) }
            ELSE { GetOp(f) : f \in Flags } \cup { SnapshotOp }
                 \cup { SnapGetOp(f) : f \in {RUNNING, PROCESSING} }
                 \cup { SetOp(f, v) : f \in Flags \ {RUNNING, PROCESSING},
                                      v \in BOOLEAN }
      [] scenario = "quit" ->
            { QuitOp, GetOp(RUNNING), SnapshotOp, SnapGetOp(RUNNING) }

\* the register value fetch_update's closure returns for the call o
NewValue(o, current) ==
    CASE o.kind = "set"             -> SetValue(current, o.flag, o.value)
      [] o.kind = "quit"            -> QuitValue(current)
      [] o.kind = "update_multiple" -> UpdateValue(current, o.updates)

\* the (flag, value) pairs the call o asks for
Requested(o) ==
    CASE o.kind = "set"             -> {<<o.flag, o.value>>}
      [] o.kind = "quit"            -> {<<RUNNING, FALSE>>}
      [] o.kind = "update_multiple" -> { o.updates[i] : i \in DOMAIN o.updates }

\* the register in which every flag has the value of the write that took
\* effect on it last, and a flag never written has its initial value
ExpectedOf(lw) ==
    { f \in Flags : IF lw[f] = "none" THEN f \in initial ELSE lw[f] = "set" }
Expected == ExpectedOf(lastWrite)

NoRes == [reg |-> {}, bit |-> FALSE]
NoSnap == {-1}

\* a snapshot that keeps a reference to the live register
SnapshotValueAliased(t) == flags
\* the u64 a FlagsSnapshot held by thread t reads (self.0)
SnapshotValue(t) == snap[t]

----------------------------------------------------------------------------
(***************************************************************************)
(* Steps of a call on the register.                                        *)
(***************************************************************************)

\* a thread calls set, get, snapshot, update_multiple, quit or, on a held
\* snapshot, FlagsSnapshot::get
Call(t) ==
    /\ pc[t] = "idle"
    /\ opsLeft > 0
    /\ \E o \in Menu(t) :
        /\ o.kind = "snap_get" => snap[t] # NoSnap
        /\ op' = [op EXCEPT ![t] = o]
        /\ pc' = [pc EXCEPT ![t] =
                    IF o.kind \in WriteKinds THEN "load"
                    ELSE IF o.kind = "snap_get" THEN "snap_get" ELSE "read"]
        /\ window' = [window EXCEPT ![t] =
                    IF o.kind \in LoadKinds THEN {Expected} ELSE {}]
    /\ opsLeft' = opsLeft - 1
    /\ UNCHANGED chanVars
    /\ UNCHANGED appVars
    /\ UNCHANGED <<scenario, initial, flags, cur, res, snap, lastWrite,
                   quitReturned>>
    /\ UNCHANGED auxVars

\* fetch_update: let mut prev = self.load(fetch_order)
FetchLoad(t) ==
    /\ pc[t] = "load"
    /\ cur' = [cur EXCEPT ![t] = flags]
    /\ pc' = [pc EXCEPT ![t] = "cas"]
    /\ UNCHANGED chanVars
    /\ UNCHANGED appVars
    /\ UNCHANGED <<scenario, initial, flags, op, res, snap, window,
                   lastWrite, opsLeft, quitReturned>>
    /\ UNCHANGED auxVars

\* effect of a write that takes effect with the register value `next`
Publish(t, next) ==
    LET lw == [f \in Flags |->
                 IF <<f, TRUE>> \in Requested(op[t]) THEN "set"
                 ELSE IF <<f, FALSE>> \in Requested(op[t]) THEN "clear"
                 ELSE lastWrite[f]]
    IN  /\ flags' = next
        /\ lastWrite' = lw
        /\ window' = [u \in Threads |->
                        IF op[u].kind \in LoadKinds
                        THEN window[u] \cup {ExpectedOf(lw)} ELSE window[u]]
        /\ cur' = [cur EXCEPT ![t] = {}]
        /\ pc' = [pc EXCEPT ![t] = "ret"]

\* a store of f(prev) that does not compare the register with prev
FetchCasBlind(t) ==
    /\ pc[t] = "cas"
    /\ Publish(t, NewValue(op[t], cur[t]))
    /\ UNCHANGED chanVars
    /\ UNCHANGED appVars
    /\ UNCHANGED <<scenario, initial, op, res, snap, opsLeft, quitReturned>>
    /\ UNCHANGED auxVars

\* fetch_update: compare_exchange_weak(prev, f(prev)); on failure retry
\* with the value found
FetchCas(t) ==
    /\ pc[t] = "cas"
    /\ IF flags = cur[t]
       THEN Publish(t, NewValue(op[t], cur[t]))
       ELSE /\ cur' = [cur EXCEPT ![t] = flags]
            /\ UNCHANGED <<flags, lastWrite, window, pc>>
    /\ UNCHANGED chanVars
    /\ UNCHANGED appVars
    /\ UNCHANGED <<scenario, initial, op, res, snap, opsLeft, quitReturned>>
    /\ UNCHANGED auxVars

\* get and snapshot: self.flags.load(SeqCst)
AtomicLoad(t) ==
    /\ pc[t] = "read"
    /\ IF op[t].kind = "get"
       THEN /\ res' = [res EXCEPT ![t] =
                         [reg |-> {}, bit |-> get(flags, op[t].flag)]]
            /\ snap' = snap
       ELSE /\ res' = [res EXCEPT ![t] = [reg |-> flags, bit |-> FALSE]]
            /\ snap' = [snap EXCEPT ![t] = flags]
    /\ pc' = [pc EXCEPT ![t] = "ret"]
    /\ UNCHANGED chanVars
    /\ UNCHANGED appVars
    /\ UNCHANGED <<scenario, initial, flags, op, cur, window, lastWrite,
                   opsLeft, quitReturned>>
    /\ UNCHANGED auxVars

\* FlagsSnapshot::get on the snapshot the thread holds
SnapGet(t) ==
    /\ pc[t] = "snap_get"
    /\ res' = [res EXCEPT ![t] =
                 [reg |-> {},
                  bit |-> FlagsSnapshot_get(SnapshotValue(t), op[t].flag)]]
    /\ pc' = [pc EXCEPT ![t] = "ret"]
    /\ UNCHANGED chanVars
    /\ UNCHANGED appVars
    /\ UNCHANGED <<scenario, initial, flags, op, cur, snap, window,
                   lastWrite, opsLeft, quitReturned>>
    /\ UNCHANGED auxVars

\* the call returns to its caller
Return(t) ==
    /\ pc[t] = "ret"
    /\ pc' = [pc EXCEPT ![t] = "idle"]
    /\ op' = [op EXCEPT ![t] = NoOp]
    /\ res' = [res EXCEPT ![t] = NoRes]
    /\ window' = [window EXCEPT ![t] = {}]
    /\ quitReturned' = (quitReturned \/ op[t].kind = "quit")
    /\ UNCHANGED chanVars
    /\ UNCHANGED appVars
    /\ UNCHANGED <<scenario, initial, flags, cur, snap, lastWrite, opsLeft>>
    /\ UNCHANGED auxVars

----------------------------------------------------------------------------
(***************************************************************************)
(* A register used by one caller at a time, with any u32 as flag index.    *)
(* debug_assert!(flag < MAX_FLAGS) exists in builds with debug assertions  *)
(* only; there, and in builds with overflow checks, an index of 64 or more *)
(* panics before the register is touched.  In the other builds the shift   *)
(* 1u64 << flag takes the index modulo 64, which is what Bit computes.     *)
(***************************************************************************)
SeqFlags   == {0, 1, MAX_FLAGS - 1}
OutOfRange == {MAX_FLAGS, MAX_FLAGS + 1}
SeqIndexes == SeqFlags \cup OutOfRange

\* the lists handed to update_multiple, repeated flags included
SeqLists == UNION { [1..n -> SeqIndexes \X BOOLEAN] : n \in 0..MaxPairs }

\* debug_assert!(flag < Self::MAX_FLAGS, ..) fails and panics
Panics(flag) == debugAssertions /\ ~(flag < MAX_FLAGS)

BoolOut(b) == IF b THEN "true" ELSE "false"

\* flags.set(f, v)
SeqSet(f, v) ==
    /\ sCall' = SetOp(f, v)
    /\ sBefore' = sReg
    /\ IF Panics(f)
       THEN sReg' = sReg /\ sOut' = "panic"
       ELSE sReg' = SetValue(sReg, f, v) /\ sOut' = "unit"
    /\ UNCHANGED <<debugAssertions, tuiVars, schedVars>>
    /\ UNCHANGED <<flagVars, chanVars, appVars>>

\* flags.get(f)
SeqGet(f) ==
    /\ sCall' = GetOp(f)
    /\ sBefore' = sReg
    /\ sReg' = sReg
    /\ sOut' = IF Panics(f) THEN "panic" ELSE BoolOut(get(sReg, f))
    /\ UNCHANGED <<debugAssertions, tuiVars, schedVars>>
    /\ UNCHANGED <<flagVars, chanVars, appVars>>

\* flags.snapshot().get(f)
SeqSnapGet(f) ==
    /\ sCall' = SnapGetOp(f)
    /\ sBefore' = sReg
    /\ sReg' = sReg
    /\ sOut' = IF Panics(f) THEN "panic"
               ELSE BoolOut(FlagsSnapshot_get(sReg, f))
    /\ UNCHANGED <<debugAssertions, tuiVars, schedVars>>
    /\ UNCHANGED <<flagVars, chanVars, appVars>>

\* flags.update_multiple(u): the assertion is inside the for loop, which
\* runs before fetch_update
SeqUpdate(u) ==
    /\ sCall' = UpdateOp(u)
    /\ sBefore' = sReg
    /\ IF \E i \in DOMAIN u : Panics(u[i][1])
       THEN sReg' = sReg /\ sOut' = "panic"
       ELSE sReg' = UpdateValue(sReg, u) /\ sOut' = "unit"
    /\ UNCHANGED <<debugAssertions, tuiVars, schedVars>>
    /\ UNCHANGED <<flagVars, chanVars, appVars>>

\* no register of this kind in use
SeqIdle ==
    /\ debugAssertions = FALSE
    /\ sReg = {}
    /\ sBefore = {}
    /\ sCall = NoOp
    /\ sOut = "none"

----------------------------------------------------------------------------
(***************************************************************************)
(* EventHandler: the bounded channel, try_send and try_recv.               *)
(* An event is [type, a, b]: Key carries its key code in a, Resize its     *)
(* width and height in a and b.  An item of the channel is an event with   *)
(* the producer and the position in that producer's accepted sends.        *)
(***************************************************************************)
Producers == 1..NumProducers
Consumers == 1..NumConsumers

KeyA     == [type |-> "Key", a |-> 97, b |-> 0]        \* KeyCode::Char('a')
KeyQ     == [type |-> "Key", a |-> 113, b |-> 0]       \* KeyCode::Char('q')
Resize   == [type |-> "Resize", a |-> 80, b |-> 24]
QuitEv   == [type |-> "Quit", a |-> 0, b |-> 0]
NoEvent  == [type |-> "none", a |-> 0, b |-> 0]

NoItem   == [ev |-> NoEvent, src |-> 0, seq |-> 0]

\* events a producer sends: producer 1 stands for the EventLoop, which
\* forwards translated terminal input (Key, Resize); the others are
\* external callers of try_send and send Key and Quit events
SendMenu(p) == IF p = 1 THEN {KeyA, KeyQ, Resize} ELSE {KeyA, QuitEv}

\* a channel created one slot too large
bounded_capacity_plus == MAX_EVENTS + 1
\* EventHandler::new: bounded(MAX_EVENTS)
bounded_capacity == MAX_EVENTS

\* tx.try_send: the channel holds `capacity` events
IsFull(q) == Len(q) >= capacity

\* a send that puts the event at the front
EnqueueFront(q, item) == <<item>> \o q
\* tx.try_send on a channel with room: the event goes to the back
Enqueue(q, item) == Append(q, item)

\* a receive that leaves the front event in the channel
DequeueRestKeep(q) == q
\* rx.try_recv on a non-empty channel: the front event leaves the channel
DequeueRest(q) == Tail(q)

NoRt == [phase |-> 0, item |-> NoItem, by |-> 0]

\* try_send with the capacity check left out
TrySendUnchecked(p, e) ==
    /\ sendsLeft > 0
    /\ sendsLeft' = sendsLeft - 1
    /\ attempts' = [attempts EXCEPT ![p] = @ + 1]
    /\ LET item == [ev |-> e, src |-> p, seq |-> Len(sent[p]) + 1]
       IN  /\ queue' = Enqueue(queue, item)
           /\ sent' = [sent EXCEPT ![p] = Append(@, e)]
           /\ sendRes' = [sendRes EXCEPT ![p] = "ok"]
           /\ rt' = NoRt
    /\ UNCHANGED <<capacity, closed, recvsLeft, recvRes, received>>
    /\ UNCHANGED flagVars
    /\ UNCHANGED appVars
    /\ UNCHANGED auxVars

\* what tx.try_send fails with: TrySendError::Closed on a closed channel,
\* TrySendError::Full on an open channel without room
TrySendError == IF closed THEN "Closed" ELSE "Full"

\* a try_send with an error of its own for the full channel
send_err_by_cause(err) ==
    IF err = "Full" THEN "ChannelFull" ELSE "ChannelClosed"
\* .map_err(|_| OxittyError::channel_closed("event channel", (0, 0)).into())
send_err(err) == "ChannelClosed"

\* what rx.try_recv fails with: TryRecvError::Empty on an open channel
\* without events, TryRecvError::Closed on a closed one without events
TryRecvError == IF closed THEN "Closed" ELSE "Empty"

\* the match of try_recv: Err(Empty) => Ok(None), Err(_) => ChannelClosed
recv_err(err) == IF err = "Empty" THEN "None" ELSE "ChannelClosed"

\* a try_send that makes room on a full channel by dropping the oldest
\* event, and still reports the error
try_send_drop_oldest(p, e) ==
    /\ attempts' = [attempts EXCEPT ![p] = @ + 1]
    /\ LET item == [ev |-> e, src |-> p, seq |-> Len(sent[p]) + 1]
       IN  IF closed \/ IsFull(queue)
           THEN /\ sendRes' = [sendRes EXCEPT ![p] = send_err(TrySendError)]
                /\ rt' = NoRt
                /\ queue' = Enqueue(Tail(queue), item)
                /\ sent' = [sent EXCEPT ![p] = Append(@, e)]
           ELSE /\ queue' = Enqueue(queue, item)
                /\ sent' = [sent EXCEPT ![p] = Append(@, e)]
                /\ sendRes' = [sendRes EXCEPT ![p] = "ok"]
                /\ rt' = IF queue = <<>>
                         THEN [phase |-> 1, item |-> item, by |-> 0]
                         ELSE NoRt
    /\ UNCHANGED <<capacity, closed, recvsLeft, recvRes, received>>

\* EventHandler::try_send: Ok(()) when the event was accepted, the
\* ChannelClosed error when the channel is full or closed
try_send(p, e) ==
    /\ attempts' = [attempts EXCEPT ![p] = @ + 1]
    /\ IF closed \/ IsFull(queue)
       THEN /\ sendRes' = [sendRes EXCEPT ![p] = send_err(TrySendError)]
            /\ rt' = NoRt
            /\ UNCHANGED <<queue, sent>>
       ELSE LET item == [ev |-> e, src |-> p, seq |-> Len(sent[p]) + 1]
            IN  /\ queue' = Enqueue(queue, item)
                /\ sent' = [sent EXCEPT ![p] = Append(@, e)]
                /\ sendRes' = [sendRes EXCEPT ![p] = "ok"]
                /\ rt' = IF queue = <<>>
                         THEN [phase |-> 1, item |-> item, by |-> 0]
                         ELSE NoRt
    /\ UNCHANGED <<capacity, closed, recvsLeft, recvRes, received>>

\* a caller outside the run loop and the EventLoop calls try_send
TrySend(p, e) ==
    /\ sendsLeft > 0
    /\ sendsLeft' = sendsLeft - 1
    /\ try_send(p, e)
    /\ UNCHANGED flagVars
    /\ UNCHANGED appVars
    /\ UNCHANGED auxVars

\* EventHandler::try_recv: Ok(Some(event)), Ok(None) on an empty open
\* channel, the ChannelClosed error on an empty closed channel
try_recv(c) ==
    /\ IF queue # <<>>
       THEN /\ recvRes' = [recvRes EXCEPT ![c] =
                             [tag |-> "Some", item |-> Head(queue)]]
            /\ received' = Append(received, Head(queue))
            /\ queue' = DequeueRest(queue)
       ELSE /\ recvRes' = [recvRes EXCEPT ![c] =
                             [tag |-> recv_err(TryRecvError),
                              item |-> NoItem]]
            /\ UNCHANGED <<queue, received>>
    /\ rt' = IF rt.phase \in {1, 2}
             THEN [rt EXCEPT !.phase = @ + 1, !.by = c]
             ELSE NoRt
    /\ UNCHANGED <<capacity, closed, sendsLeft, attempts, sent, sendRes>>

\* a caller outside the run loop calls try_recv
TryRecv(c) ==
    /\ recvsLeft > 0
    /\ recvsLeft' = recvsLeft - 1
    /\ try_recv(c)
    /\ UNCHANGED flagVars
    /\ UNCHANGED appVars
    /\ UNCHANGED auxVars

\* EventHandler::new: an empty open channel, nothing sent or received
ChannelCommon ==
    /\ queue = <<>>
    /\ closed = FALSE
    /\ attempts = [p \in Producers |-> 0]
    /\ sent = [p \in Producers |-> <<>>]
    /\ sendRes = [p \in Producers |-> "none"]
    /\ recvRes = [c \in Consumers |-> [tag |-> "none", item |-> NoItem]]
    /\ received = <<>>
    /\ rt = NoRt

\* the channel of a handler nobody uses
ChannelIdle ==
    /\ ChannelCommon
    /\ capacity = bounded_capacity
    /\ sendsLeft = 0
    /\ recvsLeft = 0

\* the register of a state nobody uses
FlagsIdle ==
    /\ scenario = "any"
    /\ initial = {}
    /\ flags = {}
    /\ pc = [t \in Threads |-> "idle"]
    /\ op = [t \in Threads |-> NoOp]
    /\ cur = [t \in Threads |-> {}]
    /\ res = [t \in Threads |-> NoRes]
    /\ snap = [t \in Threads |-> NoSnap]
    /\ window = [t \in Threads |-> {}]
    /\ lastWrite = [f \in Flags |-> "none"]
    /\ opsLeft = 0
    /\ quitReturned = FALSE

----------------------------------------------------------------------------
(***************************************************************************)
(* EventHandler::run, the input polling loop, and EventHandler::stop.      *)
(* The terminal is the environment: poll reports an event ready, no event  *)
(* within the tick, or a failure; read delivers one raw event or fails.    *)
(***************************************************************************)
MouseEv  == [type |-> "Mouse", a |-> 1, b |-> 1]
OtherRaw == [type |-> "Other", a |-> 0, b |-> 0]      \* focus, paste

\* what crossterm::event::read can deliver
RawMenu == {KeyA, KeyQ, MouseEv, Resize, OtherRaw}

\* no raw event read
NoRaw == [type |-> "none", a |-> 0, b |-> 0]

\* a match that builds Resize(height, width)
TranslateSwapped(raw) ==
    CASE raw.type = "Key"    -> [type |-> "Key", a |-> raw.a, b |-> raw.b]
      [] raw.type = "Mouse"  -> [type |-> "Mouse", a |-> raw.a, b |-> raw.b]
      [] raw.type = "Resize" -> [type |-> "Resize", a |-> raw.b, b |-> raw.a]
      [] OTHER               -> NoEvent
\* the match of EventHandler::run: the Event a raw event is forwarded as,
\* Event::Key(key), Event::Mouse(mouse) or Event::Resize(width, height),
\* and NoEvent for the raw events the loop ignores
Translate(raw) ==
    CASE raw.type = "Key"    -> [type |-> "Key", a |-> raw.a, b |-> raw.b]
      [] raw.type = "Mouse"  -> [type |-> "Mouse", a |-> raw.a, b |-> raw.b]
      [] raw.type = "Resize" -> [type |-> "Resize", a |-> raw.a, b |-> raw.b]
      [] OTHER               -> NoEvent

\* the loop is the producer 1 of the channel
LoopProducer == 1

Bump(n) == IF n < 2 THEN n + 1 ELSE n

\* a loop that never reads the flag
LoopRunningIgnored == TRUE
\* while self.running.load(Ordering::Acquire)
LoopRunning == running

\* EventHandler::run is called (by the task App::run spawns, or directly)
LoopStart ==
    /\ evPc = "idle"
    /\ evPc' = "check"
    /\ UNCHANGED <<running, evResult, pendingEv, stopAt,
                   fwdAfterStop, pollsAfterStop, lastRaw>>
    /\ UNCHANGED <<runVars, taskState, envLeft>>
    /\ UNCHANGED <<flagVars, chanVars>>
    /\ UNCHANGED auxVars

\* top of the while loop: leave with Ok(()) once the flag is false
LoopCheck ==
    /\ evPc = "check"
    /\ IF LoopRunning
       THEN evPc' = "poll" /\ evResult' = evResult
       ELSE evPc' = "done" /\ evResult' = "Ok"
    /\ UNCHANGED <<running, pendingEv, stopAt, fwdAfterStop,
                   pollsAfterStop, lastRaw>>
    /\ UNCHANGED <<runVars, taskState, envLeft>>
    /\ UNCHANGED <<flagVars, chanVars>>
    /\ LoopSched

\* self.poll_events(tick_rate)?
LoopPoll ==
    /\ evPc = "poll"
    /\ \E ready \in {"true", "false", "Err"} :
        /\ ready = "true" => envLeft > 0
        /\ envLeft' = IF ready = "true" THEN envLeft - 1 ELSE envLeft
        /\ evPc' = CASE ready = "true"  -> "read"
                     [] ready = "false" -> "yield"
                     [] ready = "Err"   -> "done"
        /\ evResult' = IF ready = "Err" THEN "Terminal" ELSE evResult
    /\ pollsAfterStop' = IF running THEN pollsAfterStop
                         ELSE Bump(pollsAfterStop)
    /\ UNCHANGED <<running, pendingEv, stopAt, fwdAfterStop, lastRaw>>
    /\ UNCHANGED <<runVars, taskState>>
    /\ UNCHANGED <<flagVars, chanVars>>
    /\ LoopSched

\* self.read_event()? and the match on the raw event
LoopRead ==
    /\ evPc = "read"
    /\ \/ \E raw \in RawMenu :
            /\ lastRaw' = raw
            /\ pendingEv' = Translate(raw)
            /\ evPc' = IF Translate(raw) = NoEvent THEN "yield" ELSE "send"
            /\ evResult' = evResult
       \/ /\ lastRaw' = NoRaw
          /\ pendingEv' = NoEvent
          /\ evPc' = "done"
          /\ evResult' = "Terminal"
    /\ UNCHANGED <<running, stopAt, fwdAfterStop, pollsAfterStop>>
    /\ UNCHANGED <<runVars, taskState, envLeft>>
    /\ UNCHANGED flagVars
    /\ UNCHANGED chanVars
    /\ LoopSched

\* self.try_send(Event::..)?
LoopSend ==
    /\ evPc = "send"
    /\ try_send(LoopProducer, pendingEv)
    /\ sendsLeft' = sendsLeft
    /\ pendingEv' = NoEvent
    /\ lastRaw' = NoRaw
    /\ IF sendRes'[LoopProducer] = "ok"
       THEN evPc' = "yield" /\ evResult' = evResult
       ELSE evPc' = "done" /\ evResult' = "ChannelClosed"
    /\ fwdAfterStop' = IF running THEN fwdAfterStop ELSE Bump(fwdAfterStop)
    /\ UNCHANGED <<running, stopAt, pollsAfterStop>>
    /\ UNCHANGED <<runVars, taskState, envLeft>>
    /\ UNCHANGED flagVars
    /\ LoopSched

\* smol::future::yield_now().await, then the next iteration
LoopYield ==
    /\ evPc = "yield"
    /\ evPc' = "check"
    /\ lastRaw' = NoRaw
    /\ UNCHANGED <<running, evResult, pendingEv, stopAt,
                   fwdAfterStop, pollsAfterStop>>
    /\ UNCHANGED <<runVars, taskState, envLeft>>
    /\ UNCHANGED <<flagVars, chanVars>>
    /\ LoopSched

LoopStep == LoopCheck \/ LoopPoll \/ LoopRead \/ LoopSend \/ LoopYield

\* a stop that flips the flag
stop_toggle ==
    /\ running' = ~running
    /\ stopAt' = IF stopAt = "none" THEN evPc ELSE stopAt

\* EventHandler::stop: self.running.store(false, Release)
stop ==
    /\ running' = FALSE
    /\ stopAt' = IF stopAt = "none" THEN evPc ELSE stopAt

\* a holder of the handler calls stop()
Stop ==
    /\ envLeft > 0
    /\ envLeft' = envLeft - 1
    /\ stop
    /\ UNCHANGED <<evPc, evResult, pendingEv, fwdAfterStop,
                   pollsAfterStop, lastRaw>>
    /\ UNCHANGED <<runVars, taskState>>
    /\ UNCHANGED <<flagVars, chanVars>>
    /\ UNCHANGED auxVars

\* Event::Custom(Box<dyn CloneableAny + Send>), with its payload left out
CustomEv == [type |-> "Custom", a |-> 0, b |-> 0]

\* a holder of the handler other than the loop calls try_send
ExtProducer == 2

\* the events sent to the handler of an App from outside its EventLoop
ExtMenu == SendMenu(ExtProducer) \cup {CustomEv}

EnvSend(e) ==
    /\ envLeft > 0
    /\ envLeft' = envLeft - 1
    /\ try_send(ExtProducer, e)
    /\ sendsLeft' = sendsLeft
    /\ UNCHANGED <<loopVars, runVars, taskState>>
    /\ UNCHANGED flagVars
    /\ UNCHANGED auxVars

\* a holder of the handler other than the run loop calls try_recv
ExtConsumer == 2
EnvRecv ==
    /\ envLeft > 0
    /\ envLeft' = envLeft - 1
    /\ try_recv(ExtConsumer)
    /\ recvsLeft' = recvsLeft
    /\ UNCHANGED <<loopVars, runVars, taskState>>
    /\ UNCHANGED flagVars
    /\ UNCHANGED auxVars

\* EventHandler::new: running = true, run not called yet
LoopCommon ==
    /\ running = TRUE
    /\ evPc = "idle"
    /\ evResult = "none"
    /\ pendingEv = NoEvent
    /\ stopAt = "none"
    /\ fwdAfterStop = 0
    /\ pollsAfterStop = 0
    /\ lastRaw = NoRaw

----------------------------------------------------------------------------
(***************************************************************************)
(* App: spawn, run and cleanup_tasks.  The state is the flag-based state   *)
(* over `flags`; the run loop is the consumer 1 of the channel.  A task    *)
(* is the event-loop task or one of the futures handed to spawn.           *)
(***************************************************************************)
EventTask == 0
RunConsumer == 1

flagRest == <<scenario, initial, pc, op, cur, res, snap, window, lastWrite,
              opsLeft, quitReturned>>

\* the run loop quits on a Quit event only
IsQuitSignalQuitOnly(e) == e.type = "Quit"
\* the run loop quits on a Quit event and on every key
IsQuitSignalAnyKey(e) == e.type \in {"Quit", "Key"}
\* the match of App::run: Event::Quit, or Event::Key with Char('q')
IsQuitSignal(e) ==
    \/ e.type = "Quit"
    \/ e.type = "Key" /\ e.a = 113

\* a snapshot taken once, when the state was constructed
TuiSnapshotInitial == AppSnapshot(initial)
\* Tui::render: let snapshot = self.state.snapshot()
TuiSnapshot == AppSnapshot(flags)

NoSnapshot == [running |-> FALSE, processing |-> FALSE]

\* what a future handed to spawn does: it completes with Ok(()), it
\* completes with an error, or it never completes
FutureKinds == {"Ok", "Err", "Never"}

\* App::spawn before run: smol::spawn(future), self.tasks.push(task)
Spawn(id, kind) ==
    /\ appPc = "ready"
    /\ taskState[id] = "unspawned"
    /\ \A j \in UserTasks : j < id => taskState[j] # "unspawned"
    /\ taskState' = [taskState EXCEPT ![id] = kind]
    /\ tasks' = Append(tasks, id)
    /\ spawned' = Append(spawned, id)
    /\ UNCHANGED <<appPc, taken, event, runResult, iter, iterRenders,
                   iterDrains, renderSnap, sinceRecv, renders, renderFailed,
                   joinLog>>
    /\ UNCHANGED <<loopVars, envLeft>>
    /\ UNCHANGED <<flagVars, chanVars>>
    /\ UNCHANGED auxVars

\* a holder of the state outside the run loop writes it: quit(), or
\* set(PROCESSING, true)
ExtWrite ==
    /\ envLeft > 0
    /\ envLeft' = envLeft - 1
    /\ \E next \in {QuitValue(flags), SetValue(flags, PROCESSING, TRUE)} :
        /\ flags' = next
        /\ sinceRecv' = IF appPc = "render"
                        THEN sinceRecv \cup {AppSnapshot(next)}
                        ELSE sinceRecv
    /\ UNCHANGED <<appPc, tasks, taken, event, runResult, iter, iterRenders,
                   iterDrains, renderSnap, renders, renderFailed, joinLog,
                   spawned>>
    /\ UNCHANGED <<loopVars, taskState>>
    /\ UNCHANGED <<flagRest, chanVars>>
    /\ UNCHANGED auxVars

\* App::run up to the loop: self.spawn(events.run(tick_rate))
RunStart ==
    /\ appPc = "ready"
    /\ evPc = "idle"
    /\ tasks' = Append(tasks, EventTask)
    /\ spawned' = Append(spawned, EventTask)
    /\ evPc' = "check"
    /\ appPc' = "check"
    /\ UNCHANGED <<running, evResult, pendingEv, stopAt,
                   fwdAfterStop, pollsAfterStop, lastRaw>>
    /\ UNCHANGED <<taken, event, runResult, iter, iterRenders, iterDrains,
                   renderSnap, sinceRecv, renders, renderFailed, joinLog>>
    /\ UNCHANGED <<taskState, envLeft>>
    /\ UNCHANGED <<flagVars, chanVars>>
    /\ RunStartSched

\* a loop condition that tests the value the state was constructed with
RunCheckStale ==
    /\ appPc = "check"
    /\ iter < MaxIters \/ ~is_running(initial)
    /\ IF is_running(initial)
       THEN /\ appPc' = "recv"
            /\ iter' = iter + 1
            /\ iterRenders' = 0
            /\ iterDrains' = 0
            /\ event' = NoEvent
            /\ sinceRecv' = {}
       ELSE /\ appPc' = "stop"
            /\ UNCHANGED <<iter, iterRenders, iterDrains, event, sinceRecv>>
    /\ UNCHANGED <<tasks, taken, runResult, renderSnap, renders,
                   renderFailed, joinLog, spawned>>
    /\ UNCHANGED <<loopVars, taskState, envLeft>>
    /\ UNCHANGED <<flagVars, chanVars>>
    /\ RunSched

\* while self.tui.state().is_running()
RunCheck ==
    /\ appPc = "check"
    /\ iter < MaxIters \/ ~is_running(flags)
    /\ IF is_running(flags)
       THEN /\ appPc' = "recv"
            /\ iter' = iter + 1
            /\ iterRenders' = 0
            /\ iterDrains' = 0
            /\ event' = NoEvent
            /\ sinceRecv' = {}
       ELSE /\ appPc' = "stop"
            /\ UNCHANGED <<iter, iterRenders, iterDrains, event, sinceRecv>>
    /\ UNCHANGED <<tasks, taken, runResult, renderSnap, renders,
                   renderFailed, joinLog, spawned>>
    /\ UNCHANGED <<loopVars, taskState, envLeft>>
    /\ UNCHANGED <<flagVars, chanVars>>
    /\ RunSched

\* self.events.try_recv()? and the match on the event
RunRecv ==
    /\ appPc = "recv"
    /\ try_recv(RunConsumer)
    /\ recvsLeft' = recvsLeft
    /\ LET r == recvRes'[RunConsumer]
       IN  CASE r.tag = "Some" ->
                  /\ event' = r.item.ev
                  /\ iterDrains' = iterDrains + 1
                  /\ appPc' = IF IsQuitSignal(r.item.ev) THEN "quit"
                              ELSE "render"
                  /\ runResult' = runResult
             [] r.tag = "None" ->
                  /\ event' = NoEvent
                  /\ iterDrains' = iterDrains
                  /\ appPc' = "render"
                  /\ runResult' = runResult
             [] r.tag = "ChannelClosed" ->
                  /\ event' = NoEvent
                  /\ iterDrains' = iterDrains
                  /\ appPc' = "returned"
                  /\ runResult' = "ChannelClosed"
    /\ sinceRecv' = {AppSnapshot(flags)}
    /\ UNCHANGED <<tasks, taken, iter, iterRenders, renderSnap, renders,
                   renderFailed, joinLog, spawned>>
    /\ UNCHANGED <<loopVars, taskState, envLeft>>
    /\ UNCHANGED flagVars
    /\ RunSched

\* a quit that also stops the EventHandler
RunQuitAndStop ==
    /\ appPc = "quit"
    /\ flags' = QuitValue(flags)
    /\ stop
    /\ appPc' = "stop"
    /\ UNCHANGED <<evPc, evResult, pendingEv, fwdAfterStop,
                   pollsAfterStop, lastRaw>>
    /\ UNCHANGED <<tasks, taken, event, runResult, iter, iterRenders,
                   iterDrains, renderSnap, sinceRecv, renders, renderFailed,
                   joinLog, spawned>>
    /\ UNCHANGED <<taskState, envLeft>>
    /\ UNCHANGED <<flagRest, chanVars>>
    /\ RunSched

\* a quit that also drains what is left in the channel
RunQuitDrain ==
    /\ appPc = "quit"
    /\ flags' = QuitValue(flags)
    /\ appPc' = "stop"
    /\ queue' = <<>>
    /\ received' = received \o queue
    /\ UNCHANGED <<capacity, closed, sendsLeft, recvsLeft, attempts, sent,
                   sendRes, recvRes, rt>>
    /\ UNCHANGED <<tasks, taken, event, runResult, iter, iterRenders,
                   iterDrains, renderSnap, sinceRecv, renders, renderFailed,
                   joinLog, spawned>>
    /\ UNCHANGED <<loopVars, taskState, envLeft>>
    /\ UNCHANGED flagRest
    /\ RunSched

\* self.tui.state().quit(); break
RunQuit ==
    /\ appPc = "quit"
    /\ flags' = QuitValue(flags)
    /\ appPc' = "stop"
    /\ UNCHANGED <<tasks, taken, event, runResult, iter, iterRenders,
                   iterDrains, renderSnap, sinceRecv, renders, renderFailed,
                   joinLog, spawned>>
    /\ UNCHANGED <<loopVars, taskState, envLeft>>
    /\ UNCHANGED <<flagRest, chanVars>>
    /\ RunSched

\* Tui::render: let snapshot = self.state.snapshot()
RunSnapshot ==
    /\ appPc = "render"
    /\ renderSnap' = TuiSnapshot
    /\ appPc' = "draw"
    /\ UNCHANGED <<tasks, taken, event, runResult, iter, iterRenders,
                   iterDrains, sinceRecv, renders, renderFailed, joinLog,
                   spawned>>
    /\ UNCHANGED <<loopVars, taskState, envLeft>>
    /\ UNCHANGED <<flagVars, chanVars>>
    /\ RunSched

\* a render pass whose failure is dropped and the loop goes on
RunDrawRetry ==
    /\ appPc = "draw"
    /\ \E called \in BOOLEAN, ok \in BOOLEAN :
        /\ ok => called
        /\ renders' = IF called THEN renders + 1 ELSE renders
        /\ iterRenders' = IF called THEN iterRenders + 1 ELSE iterRenders
        /\ renderFailed' = (renderFailed \/ ~ok)
        /\ appPc' = "yield"
        /\ runResult' = runResult
    /\ UNCHANGED <<tasks, taken, event, iter, iterDrains, renderSnap,
                   sinceRecv, joinLog, spawned>>
    /\ UNCHANGED <<loopVars, taskState, envLeft>>
    /\ UNCHANGED <<flagVars, chanVars>>
    /\ RunSched

\* Tui::render: self.terminal.draw(|frame| render_fn(&snapshot, ..))?
\* The draw calls the callback once and succeeds, or fails before or
\* after calling it; a failure returns from App::run.
RunDraw ==
    /\ appPc = "draw"
    /\ \E called \in BOOLEAN, ok \in BOOLEAN :
        /\ ok => called
        /\ renders' = IF called THEN renders + 1 ELSE renders
        /\ iterRenders' = IF called THEN iterRenders + 1 ELSE iterRenders
        /\ renderFailed' = (renderFailed \/ ~ok)
        /\ appPc' = IF ok THEN "yield" ELSE "returned"
        /\ runResult' = IF ok THEN runResult ELSE "Terminal"
    /\ UNCHANGED <<tasks, taken, event, iter, iterDrains, renderSnap,
                   sinceRecv, joinLog, spawned>>
    /\ UNCHANGED <<loopVars, taskState, envLeft>>
    /\ UNCHANGED <<flagVars, chanVars>>
    /\ RunSched

\* smol::future::yield_now().await, then the next iteration
RunYield ==
    /\ appPc = "yield"
    /\ appPc' = "check"
    /\ UNCHANGED <<tasks, taken, event, runResult, iter, iterRenders,
                   iterDrains, renderSnap, sinceRecv, renders, renderFailed,
                   joinLog, spawned>>
    /\ UNCHANGED <<loopVars, taskState, envLeft>>
    /\ UNCHANGED <<flagVars, chanVars>>
    /\ RunSched

\* self.events.stop()
RunStop ==
    /\ appPc = "stop"
    /\ stop
    /\ appPc' = "take"
    /\ UNCHANGED <<evPc, evResult, pendingEv, fwdAfterStop,
                   pollsAfterStop, lastRaw>>
    /\ UNCHANGED <<tasks, taken, event, runResult, iter, iterRenders,
                   iterDrains, renderSnap, sinceRecv, renders, renderFailed,
                   joinLog, spawned>>
    /\ UNCHANGED <<taskState, envLeft>>
    /\ UNCHANGED <<flagVars, chanVars>>
    /\ RunSched

\* a cleanup that iterates over a copy and leaves self.tasks as it is
RunTakeClone ==
    /\ appPc = "take"
    /\ taken' = tasks
    /\ tasks' = tasks
    /\ appPc' = "join"
    /\ UNCHANGED <<event, runResult, iter, iterRenders, iterDrains,
                   renderSnap, sinceRecv, renders, renderFailed, joinLog,
                   spawned>>
    /\ UNCHANGED <<loopVars, taskState, envLeft>>
    /\ UNCHANGED <<flagVars, chanVars>>
    /\ RunSched

\* cleanup_tasks: let tasks = std::mem::take(&mut self.tasks)
RunTake ==
    /\ appPc = "take"
    /\ taken' = tasks
    /\ tasks' = <<>>
    /\ appPc' = "join"
    /\ UNCHANGED <<event, runResult, iter, iterRenders, iterDrains,
                   renderSnap, sinceRecv, renders, renderFailed, joinLog,
                   spawned>>
    /\ UNCHANGED <<loopVars, taskState, envLeft>>
    /\ UNCHANGED <<flagVars, chanVars>>
    /\ RunSched

\* what the task can have produced when cleanup_tasks turns to it: the
\* event-loop task the result of EventHandler::run once that returned; a
\* future that completes its output, or nothing yet; Pending otherwise
TaskOutput(id) ==
    IF id = EventTask
    THEN (IF evPc = "done"
          THEN {IF evResult = "Ok" THEN "Ok" ELSE "Err"} ELSE {"Pending"})
    ELSE (IF taskState[id] = "Never" THEN {"Pending"}
          ELSE {taskState[id], "Pending"})

\* task.or(timer): a complete task gives its output; on a pending one
\* the timer fires, the task is dropped and with that cancelled
Joined(id, out) ==
    /\ joinLog' = Append(joinLog,
                    [task |-> id,
                     outcome |-> IF out = "Pending" THEN "Timeout" ELSE out])
    /\ taken' = Tail(taken)
    /\ evPc' = IF id = EventTask /\ out = "Pending" THEN "cancelled" ELSE evPc

\* a cleanup that waits for each task without a timer
RunJoinNoTimer ==
    /\ appPc = "join"
    /\ IF taken = <<>>
       THEN /\ appPc' = "returned"
            /\ runResult' = "Ok"
            /\ UNCHANGED <<taken, joinLog, evPc>>
       ELSE /\ \E out \in TaskOutput(Head(taken)) \ {"Pending"} :
                 Joined(Head(taken), out)
            /\ UNCHANGED <<appPc, runResult>>
    /\ UNCHANGED <<running, evResult, pendingEv, stopAt, fwdAfterStop,
                   pollsAfterStop, lastRaw>>
    /\ UNCHANGED <<tasks, event, iter, iterRenders, iterDrains, renderSnap,
                   sinceRecv, renders, renderFailed, spawned>>
    /\ UNCHANGED <<taskState, envLeft>>
    /\ UNCHANGED <<flagVars, chanVars>>
    /\ RunSched

\* a cleanup that returns the error of a task with `?`
RunJoinPropagate ==
    /\ appPc = "join"
    /\ IF taken = <<>>
       THEN /\ appPc' = "returned"
            /\ runResult' = "Ok"
            /\ UNCHANGED <<taken, joinLog, evPc>>
       ELSE \E out \in TaskOutput(Head(taken)) :
                /\ Joined(Head(taken), out)
                /\ appPc' = IF out = "Err" THEN "returned" ELSE appPc
                /\ runResult' = IF out = "Err" THEN "Task" ELSE runResult
    /\ UNCHANGED <<running, evResult, pendingEv, stopAt, fwdAfterStop,
                   pollsAfterStop, lastRaw>>
    /\ UNCHANGED <<tasks, event, iter, iterRenders, iterDrains, renderSnap,
                   sinceRecv, renders, renderFailed, spawned>>
    /\ UNCHANGED <<taskState, envLeft>>
    /\ UNCHANGED <<flagVars, chanVars>>
    /\ RunSched

\* cleanup_tasks: one turn of `for task in tasks`, racing the task with a
\* 1 second timer; after the last task App::run returns Ok(())
RunJoin ==
    /\ appPc = "join"
    /\ IF taken = <<>>
       THEN /\ appPc' = "returned"
            /\ runResult' = "Ok"
            /\ UNCHANGED <<taken, joinLog, evPc>>
       ELSE /\ \E out \in TaskOutput(Head(taken)) :
                 Joined(Head(taken), out)
            /\ UNCHANGED <<appPc, runResult>>
    /\ UNCHANGED <<running, evResult, pendingEv, stopAt, fwdAfterStop,
                   pollsAfterStop, lastRaw>>
    /\ UNCHANGED <<tasks, event, iter, iterRenders, iterDrains, renderSnap,
                   sinceRecv, renders, renderFailed, spawned>>
    /\ UNCHANGED <<taskState, envLeft>>
    /\ UNCHANGED <<flagVars, chanVars>>
    /\ RunSched

RunStep ==
    \/ RunCheck \/ RunRecv \/ RunQuit \/ RunSnapshot \/ RunDraw \/ RunYield
    \/ RunStop \/ RunTake \/ RunJoin

\* a Tui constructed on a terminal, not yet dropped
TuiBuilt ==
    /\ tty = TRUE
    /\ term = "xterm"
    /\ tuiPc = "live"
    /\ newResult = "Ok"
    /\ rawMode = TRUE
    /\ altScreen = TRUE
    /\ mouseCapture = TRUE
    /\ handler = TRUE
    /\ restores = 0
    /\ restoreResult = "none"

\* App::new: no task, run not called yet
RunCommon ==
    /\ appPc = "ready"
    /\ tasks = <<>>
    /\ taken = <<>>
    /\ event = NoEvent
    /\ runResult = "none"
    /\ iter = 0
    /\ iterRenders = 0
    /\ iterDrains = 0
    /\ renderSnap = NoSnapshot
    /\ sinceRecv = {}
    /\ renders = 0
    /\ renderFailed = FALSE
    /\ joinLog = <<>>
    /\ spawned = <<>>
    /\ taskState = [id \in UserTasks |-> "unspawned"]
    /\ TuiBuilt

\* an App and an EventLoop nobody runs
AppIdle ==
    /\ LoopCommon
    /\ RunCommon
    /\ envLeft = 0

----------------------------------------------------------------------------
(***************************************************************************)
(* The single-threaded executor: with the thread free it runs a task that  *)
(* can go on.                                                              *)
(***************************************************************************)
SchedTasks == {"run", "loop"}

\* the task can go on: App::run after its yield or while it awaits a
\* task in cleanup_tasks, EventHandler::run after its yield or when it
\* was spawned
Runnable(t) ==
    IF t = "run"
    THEN \/ appPc = "join"
         \/ appPc = "check" /\ (iter < MaxIters \/ ~is_running(flags))
    ELSE evPc = "check"

\* the executor runs the task
Dispatch(t) ==
    /\ executor = "single"
    /\ cpu = "none"
    /\ Runnable(t)
    /\ cpu' = t
    /\ UNCHANGED <<executor, userPolls, seqVars, tuiVars>>
    /\ UNCHANGED <<flagVars, chanVars, appVars>>

\* the future was spawned and its task is neither joined nor dropped
Alive(id) ==
    /\ taskState[id] \in FutureKinds
    /\ \/ \E k \in DOMAIN tasks : tasks[k] = id
       \/ \E k \in DOMAIN taken : taken[k] = id

\* the executor runs a future handed to spawn up to its next await
UserPoll(id) ==
    /\ executor = "single"
    /\ cpu = "none"
    /\ Alive(id)
    /\ userPolls[id] < MaxPolls
    /\ userPolls' = [userPolls EXCEPT ![id] = @ + 1]
    /\ UNCHANGED <<executor, cpu, seqVars, tuiVars>>
    /\ UNCHANGED <<flagVars, chanVars, appVars>>

----------------------------------------------------------------------------
(***************************************************************************)
(* Tui: construction, restore_terminal and Drop.  The terminal is the      *)
(* environment: each call that changes a mode succeeds or fails.           *)
(***************************************************************************)
TermValues == {"unset", "dumb", "xterm"}

\* a check of the TTY status alone
is_real_terminal_tty_only(tt, tm) == tt
\* Tui::is_real_terminal: stdout is a tty and TERM is set and not "dumb"
is_real_terminal(tt, tm) ==
    IF ~tt THEN FALSE
    ELSE CASE tm = "dumb"  -> FALSE
           [] tm = "unset" -> FALSE
           [] OTHER        -> TRUE

\* Tui::setup_terminal: execute!(EnterAlternateScreen, EnableMouseCapture)?
\* then enable_raw_mode()? then Terminal::new(..); each may fail, and the
\* steps before the failing one have taken effect
SetupOutcomes ==
    { [alt |-> FALSE, mouse |-> FALSE, raw |-> FALSE, ok |-> FALSE],
      [alt |-> TRUE,  mouse |-> FALSE, raw |-> FALSE, ok |-> FALSE],
      [alt |-> TRUE,  mouse |-> TRUE,  raw |-> FALSE, ok |-> FALSE],
      [alt |-> TRUE,  mouse |-> TRUE,  raw |-> TRUE,  ok |-> FALSE],
      [alt |-> TRUE,  mouse |-> TRUE,  raw |-> TRUE,  ok |-> TRUE] }

\* App::new: Tui::new(state)?, then EventHandler::new()
AppNew ==
    /\ tuiPc = "none"
    /\ appPc = "none"
    /\ IF ~is_real_terminal(tty, term)
       THEN /\ tuiPc' = "failed"
            /\ newResult' = "Terminal"
            /\ UNCHANGED <<rawMode, altScreen, mouseCapture, handler, appPc>>
       ELSE \E o \in SetupOutcomes :
            /\ altScreen' = o.alt
            /\ mouseCapture' = o.mouse
            /\ rawMode' = o.raw
            /\ tuiPc' = IF o.ok THEN "live" ELSE "failed"
            /\ newResult' = IF o.ok THEN "Ok" ELSE "Terminal"
            /\ handler' = o.ok
            /\ appPc' = IF o.ok THEN "ready" ELSE appPc
    /\ UNCHANGED <<tty, term, restores, restoreResult>>
    /\ UNCHANGED <<tasks, taken, event, runResult, iter, iterRenders,
                   iterDrains, renderSnap, sinceRecv, renders, renderFailed,
                   joinLog, spawned>>
    /\ UNCHANGED <<loopVars, taskState, envLeft>>
    /\ UNCHANGED <<flagVars, chanVars, seqVars, schedVars>>

\* Tui::restore_terminal: disable_raw_mode()?, then
\* execute!(LeaveAlternateScreen, DisableMouseCapture)?, then
\* show_cursor()?; a failing step returns, the steps after it are not run
RestoreOutcomes ==
    { [raw |-> rawMode, alt |-> altScreen, mouse |-> mouseCapture,
       res |-> "Terminal"],
      [raw |-> FALSE, alt |-> altScreen, mouse |-> mouseCapture,
       res |-> "Terminal"],
      [raw |-> FALSE, alt |-> FALSE, mouse |-> mouseCapture,
       res |-> "Terminal"],
      [raw |-> FALSE, alt |-> FALSE, mouse |-> FALSE, res |-> "Terminal"],
      [raw |-> FALSE, alt |-> FALSE, mouse |-> FALSE, res |-> "Ok"] }

restore_terminal(o) ==
    /\ restores' = restores + 1
    /\ rawMode' = o.raw
    /\ altScreen' = o.alt
    /\ mouseCapture' = o.mouse
    /\ restoreResult' = o.res

\* the owner drops the App before run or after run returned: Drop for
\* Tui calls restore_terminal and prints its error; then the handler and
\* the tasks still in App.tasks are dropped, which cancels them
AppDrop ==
    /\ tuiPc = "live"
    /\ appPc \in {"ready", "returned"}
    /\ \E o \in RestoreOutcomes : restore_terminal(o)
    /\ tuiPc' = "dropped"
    /\ appPc' = "dropped"
    /\ handler' = FALSE
    /\ tasks' = <<>>
    /\ evPc' = IF (\E k \in DOMAIN tasks : tasks[k] = EventTask)
                  /\ evPc # "done"
               THEN "cancelled" ELSE evPc
    /\ UNCHANGED <<tty, term, newResult>>
    /\ UNCHANGED <<running, evResult, pendingEv, stopAt, fwdAfterStop,
                   pollsAfterStop, lastRaw>>
    /\ UNCHANGED <<taken, event, runResult, iter, iterRenders, iterDrains,
                   renderSnap, sinceRecv, renders, renderFailed, joinLog,
                   spawned>>
    /\ UNCHANGED <<taskState, envLeft>>
    /\ UNCHANGED <<flagVars, chanVars, seqVars, schedVars>>

----------------------------------------------------------------------------
(***************************************************************************)
(* Specifications.                                                         *)
(***************************************************************************)

\* StateFlags::new(initial) shared by the threads of scenario sc
InitRegister(sc) ==
    /\ scenario = sc
    /\ initial \in SUBSET Flags
    /\ scenario = "batch" => initial \cap {RUNNING, PROCESSING} = {}
    /\ flags = initial
    /\ pc = [t \in Threads |-> "idle"]
    /\ op = [t \in Threads |-> NoOp]
    /\ cur = [t \in Threads |-> {}]
    /\ res = [t \in Threads |-> NoRes]
    /\ snap = [t \in Threads |-> NoSnap]
    /\ window = [t \in Threads |-> {}]
    /\ lastWrite = [f \in Flags |-> "none"]
    /\ opsLeft = MaxOps
    /\ quitReturned = FALSE
    /\ ChannelIdle
    /\ AppIdle
    /\ SeqIdle
    /\ SchedIdle

InitFlags == InitRegister("any")

NextFlags ==
    \E t \in Threads :
        \/ Call(t)
        \/ FetchLoad(t)
        \/ FetchCas(t)
        \/ AtomicLoad(t)
        \/ SnapGet(t)
        \/ Return(t)

SpecFlags == InitFlags /\ [][NextFlags]_vars

\* one thread performs the batch (RUNNING, PROCESSING) := (true, true),
\* the others read, and write other flags only
InitBatch == InitRegister("batch")
SpecBatch == InitBatch /\ [][NextFlags]_vars

\* the register is written by quit() only
InitQuit == InitRegister("quit")
SpecQuit == InitQuit /\ [][NextFlags]_vars

(***************************************************************************)
(* Producers and consumers interleave on a channel of capacity Cap.        *)
(***************************************************************************)
InitChan ==
    /\ FlagsIdle
    /\ AppIdle
    /\ SeqIdle
    /\ SchedIdle
    /\ ChannelCommon
    /\ capacity = Cap
    /\ sendsLeft = MaxSends
    /\ recvsLeft = MaxRecvs

NextChan ==
    \/ \E p \in Producers : \E e \in SendMenu(p) : TrySend(p, e)
    \/ \E c \in Consumers : TryRecv(c)

SpecChan == InitChan /\ [][NextChan]_vars

(***************************************************************************)
(* One caller fills a fresh channel of the capacity EventHandler::new      *)
(* gives it and tries one send more (test_channel_capacity).               *)
(***************************************************************************)
InitFill ==
    /\ FlagsIdle
    /\ AppIdle
    /\ SeqIdle
    /\ SchedIdle
    /\ ChannelCommon
    /\ capacity = bounded_capacity
    /\ sendsLeft = MAX_EVENTS + 1
    /\ recvsLeft = 0

NextFill == TrySend(1, KeyA)

SpecFill == InitFill /\ [][NextFill]_vars

(***************************************************************************)
(* An EventHandler used on its own: somebody calls run, holders call stop  *)
(* at any moment, a producer outside sends and consumers drain the         *)
(* channel.  The loop is a task of the executor and its poll returns       *)
(* within the tick, so it keeps stepping.                                  *)
(***************************************************************************)
InitLoop ==
    /\ FlagsIdle
    /\ ChannelCommon
    /\ capacity = Cap
    /\ sendsLeft = 0
    /\ recvsLeft = 0
    /\ LoopCommon
    /\ RunCommon
    /\ envLeft = Cap + 1
    /\ SeqIdle
    /\ SchedIdle

NextLoop ==
    \/ LoopStart
    \/ LoopCheck
    \/ LoopPoll
    \/ LoopRead
    \/ LoopSend
    \/ LoopYield
    \/ Stop
    \/ EnvSend(KeyA)
    \/ EnvRecv

SpecLoop == InitLoop /\ [][NextLoop]_vars /\ WF_vars(LoopStep)

(***************************************************************************)
(* An App: futures are spawned, run is called, the EventLoop forwards      *)
(* terminal input, callers outside send and receive events and write the   *)
(* state.  The run loop and the EventLoop are tasks that keep stepping; a  *)
(* spawned future may never complete.                                      *)
(***************************************************************************)
InitApp ==
    /\ scenario = "any"
    /\ initial \in {{RUNNING}, {}}
    /\ flags = initial
    /\ pc = [t \in Threads |-> "idle"]
    /\ op = [t \in Threads |-> NoOp]
    /\ cur = [t \in Threads |-> {}]
    /\ res = [t \in Threads |-> NoRes]
    /\ snap = [t \in Threads |-> NoSnap]
    /\ window = [t \in Threads |-> {}]
    /\ lastWrite = [f \in Flags |-> "none"]
    /\ opsLeft = 0
    /\ quitReturned = FALSE
    /\ ChannelCommon
    /\ capacity = Cap
    /\ sendsLeft = 0
    /\ recvsLeft = 0
    /\ LoopCommon
    /\ RunCommon
    /\ envLeft = MaxEnv
    /\ SeqIdle
    /\ SchedIdle

NextApp ==
    \/ \E id \in UserTasks, kind \in FutureKinds : Spawn(id, kind)
    \/ ExtWrite
    \/ \E e \in ExtMenu : EnvSend(e)
    \/ RunStart
    \/ RunCheck
    \/ RunRecv
    \/ RunQuit
    \/ RunSnapshot
    \/ RunDraw
    \/ RunYield
    \/ RunStop
    \/ RunTake
    \/ RunJoin
    \/ LoopCheck
    \/ LoopPoll
    \/ LoopRead
    \/ LoopSend
    \/ LoopYield

SpecApp == InitApp /\ [][NextApp]_vars /\ WF_vars(RunStep) /\ WF_vars(LoopStep)

(***************************************************************************)
(* A register in the hands of one caller at a time, in either build.       *)
(***************************************************************************)
InitSeq ==
    /\ FlagsIdle
    /\ ChannelIdle
    /\ AppIdle
    /\ debugAssertions \in BOOLEAN
    /\ sReg \in SUBSET SeqFlags
    /\ sBefore = sReg
    /\ sCall = NoOp
    /\ sOut = "none"
    /\ SchedIdle

NextSeq ==
    \/ \E f \in SeqIndexes, v \in BOOLEAN : SeqSet(f, v)
    \/ \E f \in SeqIndexes : SeqGet(f)
    \/ \E f \in SeqIndexes : SeqSnapGet(f)
    \/ \E u \in SeqLists : SeqUpdate(u)

SpecSeq == InitSeq /\ [][NextSeq]_vars

(***************************************************************************)
(* An App whose EventHandler is also stopped from outside.                 *)
(***************************************************************************)
NextSignals == NextApp \/ Stop

SpecSignals ==
    InitApp /\ [][NextSignals]_vars /\ WF_vars(RunStep) /\ WF_vars(LoopStep)

(***************************************************************************)
(* An App whose state only the run loop quits: no future is spawned and    *)
(* nobody else writes the state; events come from the EventLoop and from   *)
(* callers of try_send, and the run loop is the only consumer.             *)
(***************************************************************************)
InitDrain ==
    /\ scenario = "any"
    /\ initial = {RUNNING}
    /\ flags = initial
    /\ pc = [t \in Threads |-> "idle"]
    /\ op = [t \in Threads |-> NoOp]
    /\ cur = [t \in Threads |-> {}]
    /\ res = [t \in Threads |-> NoRes]
    /\ snap = [t \in Threads |-> NoSnap]
    /\ window = [t \in Threads |-> {}]
    /\ lastWrite = [f \in Flags |-> "none"]
    /\ opsLeft = 0
    /\ quitReturned = FALSE
    /\ ChannelCommon
    /\ capacity = Cap
    /\ sendsLeft = 0
    /\ recvsLeft = 0
    /\ LoopCommon
    /\ RunCommon
    /\ envLeft = MaxEnv + 1
    /\ SeqIdle
    /\ SchedIdle

NextDrain ==
    \/ \E e \in ExtMenu : EnvSend(e)
    \/ RunStart
    \/ RunCheck
    \/ RunRecv
    \/ RunQuit
    \/ RunSnapshot
    \/ RunDraw
    \/ RunYield
    \/ RunStop
    \/ RunTake
    \/ RunJoin
    \/ LoopCheck
    \/ LoopPoll
    \/ LoopRead
    \/ LoopSend
    \/ LoopYield

SpecDrain ==
    InitDrain /\ [][NextDrain]_vars /\ WF_vars(RunStep) /\ WF_vars(LoopStep)

(***************************************************************************)
(* An App on a single-threaded executor: the run loop, the EventLoop and   *)
(* the spawned futures share the thread.  The task that has the thread     *)
(* keeps stepping, and the executor is fair: a task that can go on         *)
(* whenever the thread is free is run.                                     *)
(***************************************************************************)
InitCoop ==
    /\ scenario = "any"
    /\ initial = {RUNNING}
    /\ flags = initial
    /\ pc = [t \in Threads |-> "idle"]
    /\ op = [t \in Threads |-> NoOp]
    /\ cur = [t \in Threads |-> {}]
    /\ res = [t \in Threads |-> NoRes]
    /\ snap = [t \in Threads |-> NoSnap]
    /\ window = [t \in Threads |-> {}]
    /\ lastWrite = [f \in Flags |-> "none"]
    /\ opsLeft = 0
    /\ quitReturned = FALSE
    /\ ChannelCommon
    /\ capacity = Cap
    /\ sendsLeft = 0
    /\ recvsLeft = 0
    /\ LoopCommon
    /\ RunCommon
    /\ envLeft = MaxEnv
    /\ SeqIdle
    /\ executor = "single"
    /\ cpu = "none"
    /\ userPolls = [id \in UserTasks |-> 0]

NextCoop ==
    \/ \E id \in UserTasks, kind \in FutureKinds : Spawn(id, kind)
    \/ \E t \in SchedTasks : Dispatch(t)
    \/ \E id \in UserTasks : UserPoll(id)
    \/ RunStart
    \/ RunCheck
    \/ RunRecv
    \/ RunQuit
    \/ RunSnapshot
    \/ RunDraw
    \/ RunYield
    \/ RunStop
    \/ RunTake
    \/ RunJoin
    \/ LoopCheck
    \/ LoopPoll
    \/ LoopRead
    \/ LoopSend
    \/ LoopYield

SpecCoop ==
    /\ InitCoop
    /\ [][NextCoop]_vars
    /\ WF_vars(RunStep)
    /\ WF_vars(LoopStep)
    /\ \A t \in SchedTasks : SF_vars(Dispatch(t))
    /\ \A id \in UserTasks : SF_vars(UserPoll(id))

(***************************************************************************)
(* The life of an App from App::new to its drop: construction on any       *)
(* terminal, spawn and run as above, and the owner dropping the App        *)
(* before run or once run has returned.                                    *)
(***************************************************************************)
InitTui ==
    /\ scenario = "any"
    /\ initial \in {{RUNNING}, {}}
    /\ flags = initial
    /\ pc = [t \in Threads |-> "idle"]
    /\ op = [t \in Threads |-> NoOp]
    /\ cur = [t \in Threads |-> {}]
    /\ res = [t \in Threads |-> NoRes]
    /\ snap = [t \in Threads |-> NoSnap]
    /\ window = [t \in Threads |-> {}]
    /\ lastWrite = [f \in Flags |-> "none"]
    /\ opsLeft = 0
    /\ quitReturned = FALSE
    /\ ChannelCommon
    /\ capacity = Cap
    /\ sendsLeft = 0
    /\ recvsLeft = 0
    /\ LoopCommon
    /\ appPc = "none"
    /\ tasks = <<>>
    /\ taken = <<>>
    /\ event = NoEvent
    /\ runResult = "none"
    /\ iter = 0
    /\ iterRenders = 0
    /\ iterDrains = 0
    /\ renderSnap = NoSnapshot
    /\ sinceRecv = {}
    /\ renders = 0
    /\ renderFailed = FALSE
    /\ joinLog = <<>>
    /\ spawned = <<>>
    /\ taskState = [id \in UserTasks |-> "unspawned"]
    /\ envLeft = MaxEnv
    /\ SeqIdle
    /\ SchedIdle
    /\ tty \in BOOLEAN
    /\ term \in TermValues
    /\ tuiPc = "none"
    /\ newResult = "none"
    /\ rawMode = FALSE
    /\ altScreen = FALSE
    /\ mouseCapture = FALSE
    /\ handler = FALSE
    /\ restores = 0
    /\ restoreResult = "none"

\* a holder of the handler sends while the App lives
LiveSend == tuiPc = "live" /\ \E e \in ExtMenu : EnvSend(e)

NextTui ==
    \/ AppNew
    \/ AppDrop
    \/ \E id \in UserTasks, kind \in FutureKinds : Spawn(id, kind)
    \/ LiveSend
    \/ RunStart
    \/ RunCheck
    \/ RunRecv
    \/ RunQuit
    \/ RunSnapshot
    \/ RunDraw
    \/ RunYield
    \/ RunStop
    \/ RunTake
    \/ RunJoin
    \/ LoopCheck
    \/ LoopPoll
    \/ LoopRead
    \/ LoopSend
    \/ LoopYield

SpecTui == InitTui /\ [][NextTui]_vars /\ WF_vars(RunStep) /\ WF_vars(LoopStep)

----------------------------------------------------------------------------
(***************************************************************************)
(* Properties of the flag register.                                        *)
(***************************************************************************)

AllReturned == \A t \in Threads : pc[t] = "idle"

\* thread t's successful compare-exchange happens in this step
TakesEffect(t) == pc[t] = "cas" /\ pc'[t] = "ret"

\* C1: every value returned by snapshot, and every bit returned by get,
\* is that of a register value that existed between the call and its
\* return, where the register values that exist are those in which every
\* write that has taken effect is reflected.
LinearizableReads ==
    \A t \in Threads :
        (pc[t] = "ret" /\ op[t].kind \in LoadKinds) =>
            \E w \in window[t] :
                IF op[t].kind = "snapshot" THEN res[t].reg = w
                ELSE res[t].bit = get(w, op[t].flag)

\* a snapshot returns the value a write gave the register during the call
LinearizableReadsWitness ==
    \E t \in Threads :
        /\ pc[t] = "ret" /\ op[t].kind = "snapshot"
        /\ Cardinality(window[t]) >= 2
        /\ res[t].reg # initial
        /\ \E f \in Flags : lastWrite[f] # "none"

NoLostUpdates == AllReturned => flags = Expected

\* two different flags were written and all calls have returned
NoLostUpdatesWitness ==
    /\ AllReturned
    /\ opsLeft = 0
    /\ \E f, g \in Flags :
        /\ f # g
        /\ lastWrite[f] # "none" /\ lastWrite[g] # "none"
        /\ (f \in flags) # (f \in initial)
        /\ (g \in flags) # (g \in initial)

\* C4: what FlagsSnapshot::get reads from a held snapshot changes in no
\* step other than the holder capturing a new snapshot, and a value read
\* from it is the value at capture.
SnapshotImmutable ==
    /\ [][\A t \in Threads :
            (snap[t] # NoSnap /\ ~(pc[t] = "read" /\ pc'[t] = "ret"))
            => \A f \in Flags :
                 FlagsSnapshot_get(SnapshotValue(t), f)' =
                 FlagsSnapshot_get(SnapshotValue(t), f)]_vars
    /\ [](\A t \in Threads :
            (pc[t] = "ret" /\ op[t].kind = "snap_get")
            => res[t].bit = FlagsSnapshot_get(snap[t], op[t].flag))

\* the held snapshot reads true for a flag the live register has cleared
SnapshotImmutableWitness ==
    \E t \in Threads :
        /\ pc[t] = "ret" /\ op[t].kind = "snap_get"
        /\ res[t].bit
        /\ ~get(flags, op[t].flag)
        /\ lastWrite[op[t].flag] = "clear"

\* C5: where the register is written by quit() only, once a quit() has
\* returned, however many quit() calls were made and by whichever threads,
\* is_running() is false, a snapshot's should_quit() is true, an
\* is_running() call made since returns false, and the register is the
\* one a single quit() leaves.
QuitIdempotent ==
    quitReturned =>
        /\ ~is_running(flags)
        /\ should_quit(AppSnapshot(flags))
        /\ flags = initial \ {RUNNING}
        /\ \A t \in Threads :
              (/\ pc[t] = "ret"
               /\ op[t] = GetOp(RUNNING)
               /\ \A w \in window[t] : RUNNING \notin w)
              => ~res[t].bit

\* a second quit() has taken effect after a first one returned
QuitIdempotentWitness ==
    /\ scenario = "quit"
    /\ quitReturned
    /\ RUNNING \in initial
    /\ \E t \in Threads : pc[t] = "ret" /\ op[t].kind = "quit"

CallIndexes(c) ==
    IF c.kind = "update_multiple"
    THEN { c.updates[i][1] : i \in DOMAIN c.updates }
    ELSE IF c.kind = "none" THEN {} ELSE {c.flag}

\* C23 as stated: a call of set, get, update_multiple or
\* FlagsSnapshot::get that names a flag index of 64 or more panics and
\* leaves the register as it was; it neither reads nor writes a flag.
OutOfRangeDetected ==
    (\E f \in CallIndexes(sCall) : f >= MAX_FLAGS) =>
        (sOut = "panic" /\ sReg = sBefore)

\* C28: with one caller, set(f, v) on a flag of the register returns
\* normally, leaves get(f) = v and every other flag as it was, a get(f)
\* called next returns v, and the same set called again leaves the
\* register as it is.
SetFrame ==
    /\ []((sCall.kind = "set" /\ sCall.flag < MAX_FLAGS) =>
            /\ sOut = "unit"
            /\ get(sReg, sCall.flag) = sCall.value
            /\ \A g \in SeqFlags \ {sCall.flag} :
                  get(sReg, g) = get(sBefore, g)
            /\ sReg \subseteq SeqFlags
            /\ SetValue(sReg, sCall.flag, sCall.value) = sReg)
    /\ [][(sCall.kind = "set" /\ sCall.flag < MAX_FLAGS
            /\ sCall' = GetOp(sCall.flag))
            => sOut' = BoolOut(sCall.value)]_vars
    /\ [][(sCall.kind = "set" /\ sCall.flag < MAX_FLAGS /\ sCall' = sCall)
            => sReg' = sReg]_vars

\* set(1, false) cleared flag 1 of a register in which flags 0 and 63
\* are set as well
SetFrameWitness ==
    /\ sCall = SetOp(1, FALSE)
    /\ sBefore = {0, 1, MAX_FLAGS - 1}
    /\ sReg = {0, MAX_FLAGS - 1}

\* set(flag, value) for each pair of the list in order
RECURSIVE ApplySets(_, _)
ApplySets(reg, updates) ==
    IF updates = <<>> THEN reg
    ELSE ApplySets(SetValue(reg, Head(updates)[1], Head(updates)[2]),
                   Tail(updates))

\* the flags of the list are in range and pairwise distinct
DistinctInRange(updates) ==
    /\ \A i \in DOMAIN updates : updates[i][1] < MAX_FLAGS
    /\ \A i, j \in DOMAIN updates :
          i # j => updates[i][1] # updates[j][1]

\* C29: with one caller, update_multiple on a list of pairwise distinct
\* flags of the register returns normally and leaves the register that
\* set(flag, value) for each pair in order gives; the flags not listed
\* are as before; and FlagsSnapshot::get on a snapshot of the result
\* agrees with get on every flag.
BatchEqualsSets ==
    (sCall.kind = "update_multiple" /\ DistinctInRange(sCall.updates)) =>
        /\ sOut = "unit"
        /\ sReg = ApplySets(sBefore, sCall.updates)
        /\ \A g \in SeqFlags \ CallIndexes(sCall) :
              get(sReg, g) = get(sBefore, g)
        /\ \A g \in SeqFlags : FlagsSnapshot_get(sReg, g) = get(sReg, g)

\* update_multiple([(0, false), (63, true)]) on a register with flags 0
\* and 1 set
BatchEqualsSetsWitness ==
    /\ sCall = UpdateOp(<<<<0, FALSE>>, <<MAX_FLAGS - 1, TRUE>>>>)
    /\ sBefore = {0, 1}
    /\ sReg = {1, MAX_FLAGS - 1}

\* the list names the flag with true in one pair and false in another
Conflicting(updates, f) ==
    \E i, j \in DOMAIN updates :
        /\ updates[i][1] = f /\ updates[i][2]
        /\ updates[j][1] = f /\ ~updates[j][2]

\* the value of the last pair of the list that names the flag
LastValue(updates, f) ==
    LET last == CHOOSE i \in DOMAIN updates :
                    /\ updates[i][1] = f
                    /\ \A j \in DOMAIN updates : updates[j][1] = f => j <= i
    IN  updates[last][2]

\* C37: after update_multiple on a list of flags of the register that
\* names a flag with both values, that flag is true, in whatever order
\* the pairs come; when the last pair for the flag carries false, the
\* flag does not have the value of that pair and the register is not the
\* one that set(flag, value) for each pair in order gives.
ConflictingPairsSet ==
    (/\ sCall.kind = "update_multiple"
     /\ \A i \in DOMAIN sCall.updates : sCall.updates[i][1] < MAX_FLAGS) =>
        \A f \in SeqFlags :
            Conflicting(sCall.updates, f) =>
                /\ sOut = "unit"
                /\ get(sReg, f)
                /\ ~LastValue(sCall.updates, f) =>
                      /\ get(sReg, f) # LastValue(sCall.updates, f)
                      /\ ~get(ApplySets(sBefore, sCall.updates), f)
                      /\ sReg # ApplySets(sBefore, sCall.updates)

\* update_multiple([(0, true), (0, false)]) on an empty register left
\* flag 0 set
ConflictingPairsSetWitness ==
    /\ sCall = UpdateOp(<<<<0, TRUE>>, <<0, FALSE>>>>)
    /\ sBefore = {}
    /\ sReg = {0}

----------------------------------------------------------------------------
(***************************************************************************)
(* Properties of the event channel.                                        *)
(***************************************************************************)

\* C7: on a fresh channel of capacity MAX_EVENTS with no receive, each of
\* the first MAX_EVENTS try_send calls returns Ok and is accepted, and
\* the call after them returns the error at once, leaving MAX_EVENTS
\* events in the channel.
BackPressure ==
    /\ attempts[1] <= MAX_EVENTS =>
          /\ Len(sent[1]) = attempts[1]
          /\ Len(queue) = attempts[1]
          /\ attempts[1] > 0 => sendRes[1] = "ok"
    /\ attempts[1] = MAX_EVENTS + 1 =>
          /\ sendRes[1] = "ChannelClosed"
          /\ Len(sent[1]) = MAX_EVENTS
          /\ Len(queue) = MAX_EVENTS

\* the call after MAX_EVENTS accepted ones has returned
BackPressureWitness ==
    /\ attempts[1] = MAX_EVENTS + 1
    /\ sendRes[1] = "ChannelClosed"
    /\ received = <<>>

\* C8: the channel never holds more events than its capacity.
ChannelBounded == Len(queue) <= capacity

\* the channel is full of events of two producers and rejected a send
ChannelBoundedWitness ==
    /\ Len(queue) = capacity
    /\ \E p \in Producers : sendRes[p] = "ChannelClosed"
    /\ \E p \in Producers \ {1} : sent[p] # <<>>
    /\ sent[1] # <<>>

\* C9: after a try_send accepted on an empty channel, the next try_recv
\* returns Some of exactly that event, and the try_recv after it returns
\* None and finds the channel empty.
RoundTrip ==
    /\ rt.phase = 2 =>
          /\ recvRes[rt.by] = [tag |-> "Some", item |-> rt.item]
          /\ rt.item.ev = sent[rt.item.src][rt.item.seq]
    /\ rt.phase = 3 =>
          /\ recvRes[rt.by] = [tag |-> "None", item |-> NoItem]
          /\ queue = <<>>

\* one producer sent, one consumer received the event and then None
RoundTripWitness ==
    /\ rt.phase = 3
    /\ received = <<rt.item>>
    /\ \A p \in Producers \ {rt.item.src} : attempts[p] = 0
    /\ \A c \in Consumers \ {rt.by} : recvRes[c].tag = "none"

\* the events received so far that producer p sent, in receive order
ReceivedFrom(p) ==
    LET FromP(item) == item.src = p
    IN  SelectSeq(received, FromP)

\* C10: the events received from one producer are, in receive order, its
\* first accepted sends in send order, whatever the other producers do.
PerProducerFIFO ==
    \A p \in Producers :
        \A i \in DOMAIN ReceivedFrom(p) :
            /\ ReceivedFrom(p)[i].seq = i
            /\ i <= Len(sent[p])
            /\ ReceivedFrom(p)[i].ev = sent[p][i]

\* two events of one producer were received around one of another
PerProducerFIFOWitness ==
    \E p, q \in Producers :
        /\ p # q
        /\ Len(received) >= 3
        /\ received[1].src = p
        /\ received[2].src = q
        /\ received[3].src = p
        /\ received[1].ev # received[3].ev

\* the accepted events, received or still in the channel
Delivered == received \o queue

\* C11: every event try_send accepted is, at any moment, either still in
\* the channel or returned by exactly one try_recv call, never both and
\* never twice, whichever consumers call try_recv; and nothing else is
\* received or in the channel.
ConsumedAtMostOnce ==
    /\ \A p \in Producers : \A i \in DOMAIN sent[p] :
          Cardinality({ k \in DOMAIN Delivered :
                          Delivered[k].src = p /\ Delivered[k].seq = i }) = 1
    /\ \A k \in DOMAIN Delivered :
          /\ Delivered[k].seq \in DOMAIN sent[Delivered[k].src]
          /\ Delivered[k].ev = sent[Delivered[k].src][Delivered[k].seq]
    /\ \A c \in Consumers :
          recvRes[c].tag = "Some" =>
              \E k \in DOMAIN received : received[k] = recvRes[c].item

\* two consumers each received an event, a third event is in the channel
ConsumedAtMostOnceWitness ==
    /\ queue # <<>>
    /\ \E c, d \in Consumers :
        /\ c # d
        /\ recvRes[c].tag = "Some" /\ recvRes[d].tag = "Some"
        /\ recvRes[c].item # recvRes[d].item

----------------------------------------------------------------------------
(***************************************************************************)
(* Properties of the run loop and of the shutdown sequence.                *)
(***************************************************************************)

\* positions of App::run after the while loop was left through a break
\* or through its condition
AfterLoop == {"stop", "take", "join", "returned"}

\* C12: once the run loop has drained a Quit event or a Key event with
\* the key 'q', it is calling quit() or has called it and left the loop:
\* the render callback was not invoked in that iteration, and from then
\* on no render pass and no further iteration happens.
QuitSignalEndsLoop ==
    /\ [](event \in {QuitEv, KeyQ} =>
            /\ appPc \in {"quit"} \cup AfterLoop
            /\ iterRenders = 0
            /\ appPc \in AfterLoop => ~is_running(flags))
    /\ [][(event \in {QuitEv, KeyQ}) =>
            (renders' = renders /\ iter' = iter /\ event' = event)]_vars

\* after an iteration that rendered, the loop drained the key 'q' the
\* EventLoop forwarded, and run returned
QuitSignalEndsLoopWitness ==
    /\ appPc = "returned"
    /\ runResult = "Ok"
    /\ event = KeyQ
    /\ iter = 2
    /\ renders = 1

\* the current iteration drained no quit signal and its render pass is
\* over
RenderPassOver ==
    /\ iter > 0
    /\ event \notin {QuitEv, KeyQ}
    /\ appPc \notin {"recv", "render", "draw"}

\* the run loop is at the yield of an iteration or beyond it, and run has
\* not returned an error
YieldedOrLater ==
    \/ appPc \in {"yield", "check", "stop", "take", "join"}
    \/ appPc = "returned" /\ runResult = "Ok"

\* C13 as stated: every iteration that consumes no quit signal invokes the
\* render callback exactly once, with a snapshot taken after the event
\* check of that iteration, and goes on to the yield; an iteration drains
\* at most one event.
RenderOncePerIteration ==
    /\ [](iterDrains <= 1)
    /\ [](RenderPassOver =>
            /\ iterRenders = 1
            /\ renderSnap \in sinceRecv
            /\ YieldedOrLater)
    /\ [][(appPc = "draw") => (appPc' \in {"draw", "yield"})]_vars

\* C13: every iteration that consumes no quit signal and whose render
\* pass succeeds invokes the render callback exactly once, with a
\* snapshot taken after the event check of that iteration, and goes on
\* to the yield; an iteration whose render pass fails invokes the
\* callback at most once and run returns without a yield; an iteration
\* drains at most one event.
RenderOncePerGoodIteration ==
    /\ [](iterDrains <= 1)
    /\ []((RenderPassOver /\ ~renderFailed) =>
            /\ iterRenders = 1
            /\ renderSnap \in sinceRecv
            /\ YieldedOrLater)
    /\ [](renderFailed =>
            /\ iterRenders <= 1
            /\ appPc = "returned"
            /\ runResult = "Terminal")
    /\ [][(appPc = "draw" /\ ~renderFailed') => (appPc' \in {"draw", "yield"})]_vars
    /\ [][(appPc = "yield") => (appPc' \in {"yield", "check"})]_vars

\* an iteration found no event, the state was written before the render
\* pass took its snapshot, the callback got that snapshot and the loop is
\* at its yield
RenderOncePerGoodIterationWitness ==
    /\ appPc = "yield"
    /\ event = NoEvent
    /\ iterDrains = 0
    /\ iterRenders = 1
    /\ renderSnap.processing
    /\ Cardinality(sinceRecv) = 2

\* C14: the first render pass that fails makes run return the Terminal
\* error in that very step; afterwards the run loop renders nothing,
\* starts no iteration, drains no event and its result does not change.
RenderFailureFatal ==
    /\ [](renderFailed => (appPc = "returned" /\ runResult = "Terminal"))
    /\ [][(~renderFailed /\ renderFailed') =>
            (appPc = "draw" /\ appPc' = "returned"
             /\ runResult' = "Terminal")]_vars
    /\ [][renderFailed =>
            /\ renders' = renders
            /\ iter' = iter
            /\ recvRes'[RunConsumer] = recvRes[RunConsumer]
            /\ appPc' = appPc
            /\ runResult' = runResult]_vars

\* the render pass of the second iteration failed after its callback,
\* run returned the error and an event is still in the channel
RenderFailureFatalWitness ==
    /\ renderFailed
    /\ appPc = "returned"
    /\ iter = 2
    /\ renders = 2
    /\ queue # <<>>

\* the joins of cleanup_tasks that ended with the timer
TimedOut == { k \in DOMAIN joinLog : joinLog[k].outcome = "Timeout" }

\* C15: once the run loop has been left by quit, run returns, whether or
\* not the spawned futures ever complete; no task is waited for twice, so
\* the timer runs out at most once for each task of the collection.
ShutdownTerminates ==
    /\ (appPc = "stop") ~> (appPc = "returned" /\ runResult = "Ok")
    /\ [](\A j, k \in DOMAIN joinLog :
            joinLog[j].task = joinLog[k].task => j = k)
    /\ [](Cardinality(TimedOut) <= Len(spawned))

\* run returned although a spawned future never completed: the wait for
\* it ended with the timer
ShutdownTerminatesWitness ==
    /\ appPc = "returned"
    /\ runResult = "Ok"
    /\ \E id \in UserTasks :
        /\ taskState[id] = "Never"
        /\ \E k \in TimedOut : joinLog[k].task = id

\* the tasks cleanup_tasks is done with, in the order it took them up
JoinedTasks == [k \in DOMAIN joinLog |-> joinLog[k].task]

\* C16: on the quit path the stop signal is set before the collection is
\* taken; the take moves every task ever pushed, the event-loop task
\* included, out of App.tasks in one step; each task taken is joined or
\* abandoned exactly once; and when run returns Ok the collection and
\* the batch taken from it are empty.
ShutdownOrdered ==
    /\ []((appPc \in {"take", "join"} \/ (appPc = "returned" /\ runResult = "Ok"))
            => ~running)
    /\ [](appPc = "take" => (tasks = spawned /\ joinLog = <<>>))
    /\ [][(appPc = "take" /\ appPc' # "take") =>
            (appPc' = "join" /\ taken' = tasks /\ tasks' = <<>>)]_vars
    /\ []((appPc = "join" \/ (appPc = "returned" /\ runResult = "Ok")) =>
            /\ tasks = <<>>
            /\ JoinedTasks \o taken = spawned
            /\ \E k \in DOMAIN spawned : spawned[k] = EventTask)
    /\ []((appPc = "returned" /\ runResult = "Ok") => taken = <<>>)

\* run returned Ok after joining a spawned future and the event-loop
\* task, which both had completed
ShutdownOrderedWitness ==
    /\ appPc = "returned"
    /\ runResult = "Ok"
    /\ Len(joinLog) = 2
    /\ joinLog[1].task \in UserTasks
    /\ joinLog[1].outcome = "Ok"
    /\ joinLog[2] = [task |-> EventTask, outcome |-> "Ok"]

\* C17 as stated: whenever run has returned, with Ok or with an error,
\* the EventLoop has been signalled to stop and the task collection has
\* been taken and every task of it joined or abandoned.
ShutdownOnEveryExit ==
    appPc = "returned" =>
        /\ ~running
        /\ tasks = <<>>
        /\ JoinedTasks = spawned

\* C18: on the quit path a turn of cleanup_tasks never ends the sequence
\* and never sets an error, whatever the task produced: it goes on with
\* the remaining tasks, and run returns Ok.
TaskOutcomesTolerated ==
    /\ [][(appPc = "join" /\ taken # <<>>) =>
            /\ appPc' = "join"
            /\ runResult' = runResult
            /\ taken' \in {taken, Tail(taken)}]_vars
    /\ []((appPc = "returned" /\ ~running) => runResult = "Ok")
    /\ [](joinLog # <<>> => runResult \in {"none", "Ok"})

\* run returned Ok after a spawned future completed with an error and the
\* wait for the event-loop task timed out
TaskOutcomesToleratedWitness ==
    /\ appPc = "returned"
    /\ runResult = "Ok"
    /\ Len(joinLog) = 2
    /\ joinLog[1].task \in UserTasks
    /\ joinLog[1].outcome = "Err"
    /\ joinLog[2] = [task |-> EventTask, outcome |-> "Timeout"]

\* C20 as stated: when polling or reading terminal input has failed in
\* the EventLoop, run does not return Ok: it returns that error.
PollFailureFatal ==
    (evResult = "Terminal" /\ appPc = "returned") => runResult = "Terminal"

\* C26: a step in which the EventHandler's running flag changes leaves
\* the state's register as it is, and a step in which is_running() of
\* the state changes leaves the running flag as it is; the running flag
\* goes to false only in a call of stop(), by a holder outside or by the
\* shutdown sequence of run, and no quit() does it.
SignalsIndependent ==
    /\ [][(running' # running) => flags' = flags]_vars
    /\ [][(is_running(flags') # is_running(flags)) => running' = running]_vars
    /\ [][(running /\ ~running') =>
            (appPc = "stop" \/ envLeft' = envLeft - 1)]_vars
    /\ [][(appPc = "quit" /\ appPc' # "quit") => running' = running]_vars

\* stop() was called from outside on the handler of a running App, which
\* is still running: the run loop has rendered since and goes on
SignalsIndependentWitness ==
    /\ ~running
    /\ is_running(flags)
    /\ stopAt # "none"
    /\ appPc = "yield"
    /\ iterRenders = 1

\* a quit signal that ends the run within the iterations of the model is
\* in the channel: the event at position k is drained k - 1 iterations
\* after the next one
QuitQueued ==
    \E k \in DOMAIN queue :
        /\ IsQuitSignal(queue[k].ev)
        /\ iter + k <= MaxIters

\* App::run has been called and has not returned
RunActive == appPc \notin {"ready", "none", "returned", "dropped"}

\* C27: while run is active, once the state has been quit, by the run
\* loop or by anybody else, or once a Quit event or a key 'q' is in the
\* channel of which the run loop is the only consumer, run returns.
QuitEndsRun ==
    /\ (RunActive /\ ~is_running(flags)) ~> (appPc = "returned")
    /\ (RunActive /\ QuitQueued) ~> (appPc = "returned")

\* a running App rendered once, was quit from outside the run loop, and
\* run returned Ok without having drained any event
QuitEndsRunWitness ==
    /\ appPc = "returned"
    /\ runResult = "Ok"
    /\ RUNNING \in initial
    /\ ~is_running(flags)
    /\ received = <<>>
    /\ renders = 1
    /\ ~renderFailed

\* C24 as stated: once the owner of a constructed Tui has dropped it,
\* before run or after run returned Ok or an error, restore_terminal has
\* run exactly once and every teardown step has been performed: raw mode
\* is off, the alternate screen is left and mouse capture is off.
TerminalRestoredOnce ==
    tuiPc = "dropped" =>
        /\ restores = 1
        /\ ~rawMode
        /\ ~altScreen
        /\ ~mouseCapture

\* C25: when standard output is not a TTY, or TERM is unset or "dumb",
\* App::new returns the Terminal error and changes no terminal mode, and
\* there is no App: no Tui, no EventHandler, no task, no run.
ConstructionGuarded ==
    (~tty \/ term \in {"unset", "dumb"}) =>
        /\ tuiPc \in {"none", "failed"}
        /\ tuiPc = "failed" => newResult = "Terminal"
        /\ ~rawMode /\ ~altScreen /\ ~mouseCapture
        /\ ~handler
        /\ appPc = "none"
        /\ tasks = <<>> /\ spawned = <<>>
        /\ evPc = "idle"
        /\ queue = <<>>

\* App::new has failed on a TTY whose TERM is "dumb"
ConstructionGuardedWitness ==
    /\ tty
    /\ term = "dumb"
    /\ tuiPc = "failed"
    /\ newResult = "Terminal"

\* C22 as stated: once the shutdown sequence of run has completed, no
\* try_send is accepted any more, and a try_recv that finds the channel
\* empty reports it closed.
ChannelClosedOnShutdown ==
    [][(appPc = "returned" /\ runResult = "Ok") =>
         /\ \A p \in Producers : sent'[p] = sent[p]
         /\ queue = <<>> =>
               \A c \in Consumers :
                   \/ recvRes'[c] = recvRes[c]
                   \/ recvRes'[c].tag = "ChannelClosed"]_vars

----------------------------------------------------------------------------
(***************************************************************************)
(* Properties of the EventLoop.                                            *)
(***************************************************************************)

\* stop() was called while EventHandler::run had not returned
StoppedLive == ~running /\ stopAt # "done"

\* once stop() was called a started loop ends; since the first stop() it
\* polls at most once and calls try_send at most once, both in the
\* iteration that was in progress; an ended loop stays ended
StopEndsLoopSteps ==
    /\ (~running /\ evPc # "idle") ~> (evPc = "done")
    /\ [](pollsAfterStop <= 1 /\ fwdAfterStop <= 1)
    /\ [](pollsAfterStop = 1 => stopAt = "poll")
    /\ [](fwdAfterStop = 1 => stopAt \in {"poll", "read", "send"})
    /\ [][(evPc = "done") => (evPc' = "done" /\ evResult' = evResult)]_vars

\* C19 as stated: after stop() the loop ends at the top of its next
\* iteration and its run returns Ok, having forwarded at most the event
\* of the iteration in progress, and never polls again.
StopEndsLoopOk ==
    /\ StopEndsLoopSteps
    /\ []((StoppedLive /\ evPc = "done") => evResult = "Ok")

\* C19: after stop() the loop ends, having polled and forwarded at most
\* once, in the iteration in progress, and never polls again; its run
\* returns Ok when stop() came between two iterations, and otherwise Ok
\* or the error with which the iteration in progress failed.
StopEndsLoop ==
    /\ StopEndsLoopSteps
    /\ []((StoppedLive /\ evPc = "done") =>
            /\ stopAt \in {"idle", "check", "yield"} => evResult = "Ok"
            /\ evResult \in {"Ok", "Terminal", "ChannelClosed"})

\* stop() was called while the loop was reading an event; the loop
\* forwarded that event, saw the flag and returned Ok
StopEndsLoopWitness ==
    /\ ~running
    /\ stopAt = "read"
    /\ evPc = "done"
    /\ evResult = "Ok"
    /\ fwdAfterStop = 1
    /\ sent[LoopProducer] # <<>>

\* C21 as stated: a send of the loop that fails because the channel is
\* full does not end the loop: EventHandler::run has not returned because
\* of it and the loop goes on to its next iteration.
SendFailureRecoverable ==
    /\ [](evResult # "ChannelClosed")
    /\ [][(evPc = "send" /\ sendRes'[LoopProducer] = "ChannelClosed")
            => evPc' \in {"send", "yield"}]_vars

\* the event a raw key, mouse or resize input is to be forwarded as
Forwarded(raw) == [type |-> raw.type, a |-> raw.a, b |-> raw.b]

\* C30: the loop reads a raw event only in the step after a poll that
\* found input ready, and at most one in an iteration; a raw key, mouse or
\* resize event becomes the one event of the same kind and payload, for
\* which the loop makes exactly one try_send call; any other raw event
\* becomes no event and no call; the loop sends Key, Mouse and Resize
\* events only.
OneEventPerRead ==
    /\ [][(evPc' = "read" /\ evPc # "read")
            => (evPc = "poll" /\ envLeft' = envLeft - 1)]_vars
    /\ [][(lastRaw' # lastRaw /\ lastRaw' # NoRaw) => evPc = "read"]_vars
    /\ [][(evPc = "read") => (evPc' \in {"read", "send", "yield", "done"})]_vars
    /\ [](evPc = "send" =>
            /\ lastRaw.type \in {"Key", "Mouse", "Resize"}
            /\ pendingEv = Forwarded(lastRaw))
    /\ [][(evPc = "send" /\ evPc' # "send") =>
            /\ attempts'[LoopProducer] = attempts[LoopProducer] + 1
            /\ \/ sent'[LoopProducer] = sent[LoopProducer]
               \/ sent'[LoopProducer] =
                      Append(sent[LoopProducer], Forwarded(lastRaw))]_vars
    /\ [][(attempts'[LoopProducer] # attempts[LoopProducer])
            => evPc = "send"]_vars
    /\ [](lastRaw.type = "Other" => (evPc = "yield" /\ pendingEv = NoEvent))
    /\ [](\A i \in DOMAIN sent[LoopProducer] :
            sent[LoopProducer][i].type \in {"Key", "Mouse", "Resize"})

\* the loop forwarded a resize and a mouse event and has just read and
\* ignored a raw event of another kind
OneEventPerReadWitness ==
    /\ sent[LoopProducer] = <<Resize, MouseEv>>
    /\ attempts[LoopProducer] = 2
    /\ lastRaw = OtherRaw
    /\ evPc = "yield"

----------------------------------------------------------------------------
(***************************************************************************)
(* Properties of the construction of the Tui.                              *)
(***************************************************************************)

\* C39 as stated: when App::new has returned an error, the terminal is in
\* the mode it had before the call: raw mode, the alternate screen and
\* mouse capture are all off.
FailedSetupUndone ==
    tuiPc = "failed" => (~rawMode /\ ~altScreen /\ ~mouseCapture)

----------------------------------------------------------------------------
(***************************************************************************)
(* Properties of the errors of try_send and try_recv.                      *)
(***************************************************************************)

\* C38: a try_send on a full open channel returns the ChannelClosed
\* error, which is the error try_send gives for a closed channel; a
\* try_recv on an empty open channel returns Ok(None), and a try_recv
\* returns an error only on a closed channel.
ErrorsOfFullAndEmpty ==
    /\ [][\A p \in Producers :
            (attempts'[p] # attempts[p] /\ IsFull(queue) /\ ~closed) =>
                /\ sendRes'[p] = "ChannelClosed"
                /\ sendRes'[p] = send_err("Closed")]_vars
    /\ [][\A c \in Consumers :
            (recvRes'[c] # recvRes[c] /\ queue = <<>> /\ ~closed) =>
                recvRes'[c].tag = "None"]_vars
    /\ [](\A c \in Consumers : recvRes[c].tag = "ChannelClosed" => closed)

\* a producer was refused by the full open channel, and a consumer that
\* then drained the channel found it empty
ErrorsOfFullAndEmptyWitness ==
    /\ ~closed
    /\ sendRes[1] = "ChannelClosed"
    /\ Len(sent[1]) = Cap
    /\ Len(received) = Cap
    /\ recvRes[1].tag = "None"

\* the accepted sends, as producer and position
AcceptedSends == UNION {{<<p, i>> : i \in DOMAIN sent[p]} : p \in Producers}

\* C33: a try_send that returns an error changes neither the channel nor
\* what was accepted; the channel and the receives hold the accepted
\* events only, each once, so a rejected event never turns up; a try_recv
\* returns the oldest event of the channel and removes just that, and
\* returns None once the channel is empty.
FailedSendFrame ==
    /\ [][\A p \in Producers :
            (attempts'[p] # attempts[p] /\ sendRes'[p] # "ok") =>
                /\ queue' = queue
                /\ sent' = sent
                /\ received' = received]_vars
    /\ [](/\ Len(Delivered) = Cardinality(AcceptedSends)
          /\ \A k \in DOMAIN Delivered :
                /\ Delivered[k].seq \in DOMAIN sent[Delivered[k].src]
                /\ Delivered[k].ev = sent[Delivered[k].src][Delivered[k].seq])
    /\ [][\A c \in Consumers :
            (recvRes'[c] # recvRes[c]) =>
                /\ Delivered' = Delivered
                /\ queue # <<>> =>
                      /\ recvRes'[c] = [tag |-> "Some", item |-> Head(queue)]
                      /\ queue' = Tail(queue)
                /\ queue = <<>> => recvRes'[c].tag = "None"]_vars

\* producer 1 filled the channel and its third event was refused; the
\* consumer then received the two accepted events, in order, and None
FailedSendFrameWitness ==
    /\ sent[1] = <<KeyA, Resize>>
    /\ attempts[1] = 3
    /\ sendRes[1] = "ChannelClosed"
    /\ Len(received) = 2
    /\ received[1].ev = KeyA
    /\ received[2].ev = Resize
    /\ queue = <<>>
    /\ recvRes[1].tag = "None"

----------------------------------------------------------------------------
(***************************************************************************)
(* Properties of the running flag of the EventHandler.                     *)
(***************************************************************************)

\* C32: the flag is true on a new handler; a stop() leaves it false; no
\* step makes it true again; a stop() on a stopped handler changes
\* nothing of the handler; and a run called after stop() returns Ok from
\* the top of its loop, without a poll, a read or a send.
RunningMonotonic ==
    /\ running = TRUE
    /\ [][Stop => ~running']_vars
    /\ [][running' => running]_vars
    /\ [][(~running /\ Stop) => UNCHANGED <<loopVars, chanVars>>]_vars
    /\ [](stopAt = "idle" =>
            /\ evPc \in {"idle", "check", "done"}
            /\ evPc = "done" => evResult = "Ok"
            /\ pollsAfterStop = 0
            /\ fwdAfterStop = 0
            /\ attempts[LoopProducer] = 0)
    /\ (stopAt = "idle" /\ evPc = "check") ~> (evPc = "done")

\* stop() was called twice on a new handler and nothing else was done
\* with it; run was called afterwards and has returned Ok
RunningMonotonicWitness ==
    /\ ~running
    /\ stopAt = "idle"
    /\ envLeft = Cap - 1
    /\ \A p \in Producers : attempts[p] = 0
    /\ \A c \in Consumers : recvRes[c].tag = "none"
    /\ evPc = "done"
    /\ evResult = "Ok"

----------------------------------------------------------------------------
(***************************************************************************)
(* Properties of the run loop: a run on a stopped state, the events        *)
(* around a quit, the events that are no quit, and progress.               *)
(***************************************************************************)

\* run was called and has not started an iteration, and the state is
\* not running
StartedStopped ==
    /\ appPc \notin {"ready", "none"}
    /\ iter = 0
    /\ ~is_running(flags)

\* the tasks cleanup_tasks has joined, in order
JoinedOrder == [k \in DOMAIN joinLog |-> joinLog[k].task]

\* C36: when the state is not running as run is called, the loop
\* condition sends run straight to the shutdown: no iteration, no render
\* pass, no event drained; the event-loop task was spawned, the handler
\* is stopped before the tasks are taken, every task of the collection is
\* joined, the collection is left empty, and run returns Ok.
RunOnStoppedState ==
    /\ [][(appPc = "check" /\ iter = 0 /\ ~is_running(flags)) =>
            (appPc' \in {"check", "stop"} /\ iter' = 0)]_vars
    /\ [](StartedStopped =>
            /\ renders = 0 /\ iterRenders = 0 /\ ~renderFailed
            /\ iterDrains = 0 /\ received = <<>> /\ event = NoEvent
            /\ spawned # <<>>
            /\ spawned[Len(spawned)] = EventTask
            /\ evPc # "idle"
            /\ appPc \in {"check", "stop", "take", "join", "returned"}
            /\ appPc \in {"take", "join", "returned"} => ~running
            /\ appPc = "returned" =>
                  /\ runResult = "Ok"
                  /\ tasks = <<>>
                  /\ taken = <<>>
                  /\ JoinedOrder = spawned)
    /\ StartedStopped ~> (appPc = "returned" /\ runResult = "Ok")

\* a state constructed without RUNNING, one future spawned, and run has
\* returned Ok after joining that task and the event-loop task
RunOnStoppedStateWitness ==
    /\ initial = {}
    /\ appPc = "returned"
    /\ runResult = "Ok"
    /\ renders = 0
    /\ iter = 0
    /\ Len(joinLog) = 2
    /\ ~running

\* an event that is neither Quit nor the key 'q'
NonQuit(e) ==
    \/ e.type \in {"Mouse", "Resize", "Custom"}
    \/ e.type = "Key" /\ e.a # 113

\* C35: when the run loop drains an event that is neither Quit nor the
\* key 'q', the event leaves the channel and nothing else changes: the
\* state, the running flag of the handler and the task collection are as
\* before, and the iteration goes on to the render pass; the render pass
\* and the yield of the iteration change none of them either, and an
\* event once drained is never in the channel again.
NonQuitDiscarded ==
    /\ [][(/\ appPc = "recv"
           /\ appPc' # appPc
           /\ queue # <<>>
           /\ NonQuit(Head(queue).ev)) =>
            /\ event' = Head(queue).ev
            /\ appPc' = "render"
            /\ queue' = Tail(queue)
            /\ received' = Append(received, Head(queue))
            /\ flags' = flags
            /\ running' = running
            /\ tasks' = tasks
            /\ runResult' = runResult]_vars
    /\ [][(appPc \in {"render", "draw", "yield"} /\ appPc' # appPc) =>
            /\ UNCHANGED <<flags, running, tasks, queue, received>>
            /\ appPc = "render" => appPc' = "draw"]_vars
    /\ [](\A k \in DOMAIN queue : \A j \in DOMAIN received :
            queue[k] # received[j])

\* the run loop drained a Custom event, rendered, and is at its yield
\* with the state still running and the handler not stopped
NonQuitDiscardedWitness ==
    /\ event = CustomEv
    /\ appPc = "yield"
    /\ iterRenders = 1
    /\ is_running(flags)
    /\ running
    /\ queue = <<>>
    /\ Len(received) = 1

\* the run loop has drained a Quit event or the key 'q'
QuitReceived == \E j \in DOMAIN received : IsQuitSignal(received[j].ev)

\* C34: the run loop takes the oldest event of the channel, one in an
\* iteration; an event that is no quit signal is followed by the render
\* pass of its iteration, which is complete before the next event is
\* drained; a quit signal in the channel is drained in its turn, after
\* the events accepted ahead of it; once it is drained the run loop
\* drains nothing more, so the events accepted behind it stay in the
\* channel and are there when run returns.
DrainUpToQuit ==
    /\ [][(received' # received) =>
            /\ appPc = "recv"
            /\ iterDrains = 0 /\ iterDrains' = 1
            /\ queue # <<>>
            /\ received' = Append(received, Head(queue))
            /\ queue' = Tail(queue)
            /\ appPc' = IF NonQuit(Head(queue).ev) THEN "render" ELSE "quit"
          ]_vars
    /\ [][(queue' # queue /\ received' = received) =>
            (\E p \in Producers :
                /\ sent'[p] # sent[p]
                /\ queue' = Append(queue,
                              [ev |-> sent'[p][Len(sent'[p])], src |-> p,
                               seq |-> Len(sent'[p])]))]_vars
    /\ [][(appPc' = "recv" /\ appPc # "recv") =>
            /\ appPc = "check"
            /\ iter > 0 => iterRenders = 1]_vars
    /\ [][QuitReceived => received' = received]_vars
    /\ [](QuitReceived =>
            /\ IsQuitSignal(received[Len(received)].ev)
            /\ \A j \in 1..(Len(received) - 1) : NonQuit(received[j].ev)
            /\ appPc \in {"quit", "stop", "take", "join", "returned"}
            /\ renders >= Len(received) - 1)
    /\ [](Len(Delivered) = Cardinality(AcceptedSends))
    /\ (RunActive /\ QuitQueued) ~>
          (QuitReceived \/ runResult \notin {"none", "Ok"})

\* a key, a Quit event and a Custom event were accepted in this order;
\* the run loop drained the key, rendered, drained the Quit event in the
\* next iteration, and has returned Ok with the Custom event still in the
\* channel
DrainUpToQuitWitness ==
    /\ appPc = "returned"
    /\ runResult = "Ok"
    /\ Len(received) = 2
    /\ received[1].ev = KeyA
    /\ received[2].ev = QuitEv
    /\ Len(queue) = 1
    /\ queue[1].ev = CustomEv
    /\ queue[1].seq = 3
    /\ renders = 1
    /\ iter = 2

\* how far App::run is from the call, in statements
RunRank(p) ==
    CASE p = "check"  -> 1
      [] p = "recv"   -> 2
      [] p = "quit"   -> 3
      [] p = "render" -> 3
      [] p = "draw"   -> 4
      [] p = "yield"  -> 5
      [] p = "stop"   -> 6
      [] p = "take"   -> 7
      [] p = "join"   -> 8
      [] OTHER        -> 9

\* how far EventHandler::run is into its iteration, in statements
LoopRank(p) ==
    CASE p = "check" -> 1
      [] p = "poll"  -> 2
      [] p = "read"  -> 3
      [] p = "send"  -> 4
      [] p = "yield" -> 5
      [] OTHER       -> 6

\* EventHandler::run has returned, was cancelled, or was never spawned
LoopOver == evPc \in {"idle", "done", "cancelled"}

\* C31: on a single-threaded executor the run loop and the EventLoop
\* step only while they have the thread and give it up only at a yield
\* point, at an await of the shutdown or at their return; while a loop
\* has the thread every step takes it further down its body, so it
\* reaches the yield within the length of the body; hence under a fair
\* executor each loop that has the thread gives it up, each loop that
\* waits for the thread gets it, a spawned future is run, the EventLoop
\* yields again and again until it ends, and the run loop starts its
\* next iteration or its shutdown after every yield.
CooperativeProgress ==
    /\ [][(appPc' # appPc /\ appPc # "ready") => cpu = "run"]_vars
    /\ [][(evPc' # evPc /\ evPc # "idle" /\ evPc' # "cancelled")
            => cpu = "loop"]_vars
    /\ [][(cpu = "run" /\ cpu' # "run") =>
            (appPc = "yield" \/ appPc' \in {"join", "returned"})]_vars
    /\ [][(cpu = "loop" /\ cpu' # "loop") =>
            (evPc = "yield" \/ evPc' = "done")]_vars
    /\ [][(cpu = "run" /\ cpu' = "run" /\ appPc' # appPc) =>
            RunRank(appPc') > RunRank(appPc)]_vars
    /\ [][(cpu = "loop" /\ cpu' = "loop" /\ evPc' # evPc) =>
            LoopRank(evPc') > LoopRank(evPc)]_vars
    /\ (cpu = "run") ~> (cpu # "run")
    /\ (cpu = "loop") ~> (cpu # "loop")
    /\ (cpu # "run" /\ Runnable("run")) ~> (cpu = "run")
    /\ (cpu # "loop" /\ Runnable("loop")) ~>
          (cpu = "loop" \/ evPc = "cancelled")
    /\ \A id \in UserTasks : \A n \in 0..(MaxPolls - 1) :
          (Alive(id) /\ userPolls[id] = n) ~>
              (userPolls[id] > n \/ ~Alive(id))
    /\ ([]<>(evPc = "yield")) \/ (<>[]LoopOver)
    /\ (appPc = "yield" /\ (iter < MaxIters \/ ~is_running(flags))) ~>
          (appPc \in {"recv", "stop"})

\* on the single thread the run loop is in its second iteration while
\* the state is running; between its iterations the EventLoop forwarded
\* an input event and yielded, and a spawned future was run
CooperativeProgressWitness ==
    /\ executor = "single"
    /\ cpu = "run"
    /\ appPc = "recv"
    /\ iter = 2
    /\ is_running(flags)
    /\ sent[LoopProducer] # <<>>
    /\ evPc = "check"
    /\ \E id \in UserTasks : userPolls[id] > 0

====
